---- MODULE Spec2Model ----
(***************************************************************************)
(* A model of AutoM8's inventory tree (autom8_pkg/ui/tree.py), its live    *)
(* process runner and command builder (autom8_pkg/core/runner.py), its     *)
(* output pane (autom8_pkg/ui/panes.py) and its UI loop with run()         *)
(* (autom8_pkg/core/app.py).                                               *)
(*                                                                         *)
(* The tree, the runner, the output pane and the command builder share no  *)
(* state; each has a specification of its own (SpecTree, SpecTreeAny,      *)
(* SpecRunner / SpecRunnerFair / SpecRunnerNoPull, SpecBuf, SpecCmd) that  *)
(* moves its own variables and leaves the others at their initial values.  *)
(* SpecApp composes the UI loop with the runner, the output pane and the   *)
(* command builder, as App.run uses them.                                  *)
(***************************************************************************)
EXTENDS Integers, Sequences, FiniteSets, TLC

VARIABLES
    \* ---- TreePane (tree.py) ----
    root,       \* TreePane.root: 0 is None, otherwise the index in Trees of the loaded tree
    checked,    \* TreeNode.checked of every node (0 unchecked, 1 partial, 2 checked)
    expanded,   \* TreeNode.expanded of every node
    flat,       \* TreePane._flat: the visible nodes, in row order
    index,      \* TreePane.index: the cursor row (0-based, as in the code)
    top,        \* TreePane.top: the first row shown (0-based)
    winH,       \* the height win.getmaxyx() reports
    last,       \* history: the last TreePane operation, the node it acted on and that node's state before
    \* ---- LiveRunner (runner.py) ----
    mainPc,     \* where the thread that uses the runner stands
    childPc,    \* the child process: "none", "running", "exited"
    total,      \* how many bytes the child writes before it exits
    written,    \* how many bytes the child has written (byte k of its output is the number k)
    exitCode,   \* the child's exit code (-1 until it exits)
    pty,        \* the bytes written to the slave side and not yet read from the master
    masterFd,   \* master_fd: "none", "open", "closed"
    slaveFd,    \* the parent's slave_fd: "none", "open", "closed"
    readerPc,   \* where the _reader thread stands
    chunk,      \* the chunk _reader has read and not yet put
    readerEnd,  \* how _reader's loop ended: "none", "eof", "oserror"
    queue,      \* LiveRunner.queue
    sentinels,  \* history: how many times _reader has put None
    lateItems,  \* history: how many items _reader has put after a None
    yielded,    \* history: the bytes of the chunks stream() has yielded, in order
    abandoned,  \* history: the consumer left the loop over stream() before stream() returned
    waitCalled, \* history: wait() has been called
    waitResult, \* what wait() returned (-1 until it does)
    \* ---- OutputPane (panes.py) ----
    lines,      \* OutputPane.lines: the buffered lines, each a sequence of code points
    max_lines,  \* OutputPane.max_lines
    scroll,     \* OutputPane.scroll
    outH,       \* the height the pane's win.getmaxyx() reports
    appended,   \* history: every line appended since the pane was created or cleared
    blast,      \* history: the last OutputPane operation, its chunk and Len(appended) before it
    \* ---- build_ansible_cmd (runner.py) ----
    cmd,        \* the list build_ansible_cmd returned last (<<>> before any call)
    cargs,      \* history: the arguments of that call
    environ,    \* os.environ, for the names in EnvNames
    \* ---- App (app.py) ----
    appPc,          \* the UI thread: "getch" (loop waits for a key), "run" (inside run()'s try), "crashed"
    keys,           \* the keys typed and not yet returned by getch, each with whether a run was in progress
    typed,          \* history: how many keys have been typed
    running,        \* AppState.running
    playbook_rel,   \* AppState.playbook_rel (NoArg for None)
    st_hosts,       \* AppState.hosts
    vault,          \* AppState.vault
    vault_password, \* AppState.vault_password (NoArg for None)
    vaultFile,      \* the temporary vault password file: "none", "exists", "removed", "remove_failed"
    spawned,        \* history: how many child processes run() has started
    runEnd,         \* history: how the last run() that reached its try ended: "none", "returned", "raised", "spawn_failed"
    queuedRun,      \* history: a run was started by a key typed while another run was in progress
    lateKey,        \* history: a key typed during a run was handled only after that run's child had exited
    streamed,       \* history: the chunks stream() has yielded to the current run, as bytes
    \* ---- App._build_command_preview (app.py) ----
    st_group,       \* AppState.group
    preview,        \* the lines the "Command Preview" modal was last opened with, and AppState.vault then
    \* ---- App.loop's host selection and MultiCheckModalPane (app.py, panes.py) ----
    selected_sites, \* AppState.selected_sites
    group_map,      \* App.group_map: group name -> sorted host names
    m_pc,           \* "closed", or "open" while MultiCheckModalPane.run() waits for a key
    m_g,            \* loop()'s local g, the group the modal was opened for
    m_options,      \* MultiCheckModalPane.options
    m_selected,     \* MultiCheckModalPane.selected
    m_index,        \* MultiCheckModalPane.index
    m_top,          \* MultiCheckModalPane.top
    m_height,       \* MultiCheckModalPane.height
    m_ret,          \* history: how run() last returned, its value and the options shown checked then
    \* ---- the single-file front-end (autom8.py) ----
    l_ask_vault,    \* App.ask_vault
    l_hosts,        \* App.selected_hosts
    l_calls,        \* history: how many times run_ansible has been called
    l_runs,         \* the Runner threads started so far, each "alive" or "done"; App.runner is the last
    l_files,        \* the temporary vault password files created so far, each "exists" or "removed"
    l_cleaners,     \* the _cleanup threads started so far: their file (0 for None), the Runner they join (0 before the join), and where they are
    l_out           \* what run_ansible last appended to the output pane

tvars == <<root, checked, expanded, flat, index, top, winH, last>>

rvars == <<mainPc, childPc, total, written, exitCode, pty, masterFd, slaveFd, readerPc,
           chunk, readerEnd, queue, sentinels, lateItems, yielded, abandoned,
           waitCalled, waitResult>>

bvars == <<lines, max_lines, scroll, outH, appended, blast>>

cvars == <<cmd, cargs, environ>>

avars == <<appPc, keys, typed, running, playbook_rel, st_hosts, vault, vault_password,
           vaultFile, spawned, runEnd, queuedRun, lateKey, streamed>>

pvars == <<st_group, preview>>

\* the variables of the parts that stand beside the run: the command preview
\* and the host selection, and the single-file front-end
mvars == <<selected_sites, group_map, m_pc, m_g, m_options, m_selected, m_index, m_top,
           m_height, m_ret>>

lvars == <<l_ask_vault, l_hosts, l_calls, l_runs, l_files, l_cleaners, l_out>>

xvars == <<pvars, mvars, lvars>>

vars == <<tvars, rvars, bvars, cvars, avars, xvars>>

\* what the steps of one component leave alone
NotTree == <<rvars, bvars, cvars, avars, xvars>>

NotRunner == <<tvars, bvars, cvars, avars, xvars>>

NotBuf == <<tvars, rvars, cvars, avars, xvars>>

NotCmd == <<tvars, rvars, bvars, avars, xvars>>

\* ------------------------------------------------------------------
\* Small helpers
\* ------------------------------------------------------------------
Iota(n) == [i \in 1..n |-> i]

Max(a, b) == IF a >= b THEN a ELSE b

Min(a, b) == IF a <= b THEN a ELSE b

RECURSIVE SeqToSet(_)
SeqToSet(s) == IF s = <<>> THEN {} ELSE {Head(s)} \cup SeqToSet(Tail(s))

\* ------------------------------------------------------------------
\* Tree descriptors: what the inventory loader hands to set_tree.
\* A descriptor is the nested dict {name, kind, children} flattened in
\* pre-order: node 1 is the root, parent[n] = 0 for the root only.
\* Host names repeat across and inside top-level groups.
\* ------------------------------------------------------------------
TreeA ==
    [ name   |-> <<"all", "A", "sw1", "sw2", "B", "sw1", "C", "sw1">>,
      kind   |-> <<"group", "group", "host", "host", "group", "host", "group", "host">>,
      parent |-> <<0, 1, 2, 2, 1, 5, 1, 7>> ]

TreeB ==
    [ name   |-> <<"all", "A", "s1", "sw1", "s2", "sw1", "sw1", "E">>,
      kind   |-> <<"group", "group", "group", "host", "group", "host", "host", "group">>,
      parent |-> <<0, 1, 2, 3, 2, 5, 1, 1>> ]

\* a descriptor from_dict accepts although its host "sw1" has children
TreeC ==
    [ name   |-> <<"all", "sw1", "sw2", "s1">>,
      kind   |-> <<"group", "host", "host", "host">>,
      parent |-> <<0, 1, 2, 2>> ]

\* what a descriptor holds for a key it lacks
NoKey == "<missing>"

\* a descriptor with a node of kind "server"
TreeD ==
    [ name   |-> <<"all", "A", "sw1", "sw2">>,
      kind   |-> <<"group", "group", "host", "server">>,
      parent |-> <<0, 1, 2, 1>> ]

\* a descriptor whose node at depth 2 has no "name"
TreeE ==
    [ name   |-> <<"all", "A", NoKey>>,
      kind   |-> <<"group", "group", "host">>,
      parent |-> <<0, 1, 2>> ]

\* a descriptor whose node at depth 1 has no "kind"
TreeG ==
    [ name   |-> <<"all", "sw1">>,
      kind   |-> <<"group", NoKey>>,
      parent |-> <<0, 1>> ]

\* a site whose group "g" is listed twice, a host between the two listings
TreeF ==
    [ name   |-> <<"all", "X", "g", "sw1", "sw2", "g", "sw1">>,
      kind   |-> <<"group", "group", "group", "host", "host", "group", "host">>,
      parent |-> <<0, 1, 2, 3, 2, 2, 6>> ]

Trees == <<TreeA, TreeB, TreeC, TreeD, TreeE, TreeG, TreeF>>

\* the descriptors in which only groups have children
WellFormed == {1, 2, 7}

\* Python's order on the host names that occur (sorted() compares code points).
NameOrder == <<"s1", "sw1", "sw2">>

NameRank(s) == CHOOSE i \in 1..Len(NameOrder) : NameOrder[i] = s

\* None, as top_level_group returns it.
NoGroup == ""

NumNodes(t) == Len(t.parent)

children(t, n) == SelectSeq(Iota(NumNodes(t)), LAMBDA m : t.parent[m] = n)

\* ------------------------------------------------------------------
\* TreeNode
\* ------------------------------------------------------------------
\* _recompute_from_children without the upward call on self.parent
_recompute_no_propagation(t, chk, n) ==
    LET ch == children(t, n) IN
    IF ch = <<>> THEN chk
    ELSE LET states == {chk[ch[i]] : i \in 1..Len(ch)}
         IN  [chk EXCEPT ![n] = IF states = {2} THEN 2 ELSE IF states = {0} THEN 0 ELSE 1]

RECURSIVE _recompute_from_children(_, _, _)
_recompute_from_children(t, chk, n) ==
    LET ch == children(t, n) IN
    IF ch = <<>> THEN chk
    ELSE LET states == {chk[ch[i]] : i \in 1..Len(ch)}
             new    == IF states = {2} THEN 2 ELSE IF states = {0} THEN 0 ELSE 1
             chk1   == [chk EXCEPT ![n] = new]
         IN  IF t.parent[n] # 0
             THEN _recompute_from_children(t, chk1, t.parent[n])
             ELSE chk1

\* _set_checked_recursive that sets the node and its children but does not
\* descend into the children's own subtrees
_set_checked_one_level(t, chk, n, value) ==
    LET v    == IF value # 0 THEN 2 ELSE 0
        chk1 == [m \in 1..NumNodes(t) |-> IF m = n \/ t.parent[m] = n THEN v ELSE chk[m]]
    IN  IF t.parent[n] # 0
        THEN _recompute_from_children(t, chk1, t.parent[n])
        ELSE chk1

RECURSIVE _set_checked_recursive(_, _, _, _)
RECURSIVE _set_checked_children(_, _, _, _)
_set_checked_recursive(t, chk, n, value) ==
    LET chk1 == [chk EXCEPT ![n] = IF value # 0 THEN 2 ELSE 0]
        chk2 == _set_checked_children(t, chk1, children(t, n), value)
    IN  IF t.parent[n] # 0
        THEN _recompute_from_children(t, chk2, t.parent[n])
        ELSE chk2

\* the loop "for c in self.children: c._set_checked_recursive(value)"
_set_checked_children(t, chk, cs, value) ==
    IF cs = <<>> THEN chk
    ELSE _set_checked_children(t, _set_checked_recursive(t, chk, Head(cs), value),
                               Tail(cs), value)

\* toggle_check whose group branch unchecks a Partial group instead of checking it
toggle_check_partial_unchecks(t, chk, n) ==
    IF t.kind[n] = "host"
    THEN LET chk1 == [chk EXCEPT ![n] = IF chk[n] = 2 THEN 0 ELSE 2]
         IN  IF t.parent[n] # 0
             THEN _recompute_from_children(t, chk1, t.parent[n])
             ELSE chk1
    ELSE _set_checked_recursive(t, chk, n, IF chk[n] = 0 THEN 1 ELSE 0)

toggle_check(t, chk, n) ==
    IF t.kind[n] = "host"
    THEN LET chk1 == [chk EXCEPT ![n] = IF chk[n] = 2 THEN 0 ELSE 2]
         IN  IF t.parent[n] # 0
             THEN _recompute_from_children(t, chk1, t.parent[n])
             ELSE chk1
    ELSE LET want == IF chk[n] = 2 THEN 0 ELSE 2
         IN  _set_checked_recursive(t, chk, n, IF want = 2 THEN 1 ELSE 0)

toggle_expand(t, exp, n) ==
    IF t.kind[n] = "group" /\ children(t, n) # <<>>
    THEN [exp EXCEPT ![n] = ~exp[n]]
    ELSE exp

RECURSIVE iter_visible(_, _, _)
RECURSIVE iter_visible_children(_, _, _)
iter_visible(t, exp, n) ==
    <<n>> \o (IF t.kind[n] = "group" /\ exp[n]
              THEN iter_visible_children(t, exp, children(t, n))
              ELSE <<>>)

iter_visible_children(t, exp, cs) ==
    IF cs = <<>> THEN <<>>
    ELSE iter_visible(t, exp, Head(cs)) \o iter_visible_children(t, exp, Tail(cs))

RECURSIVE depth(_, _)
depth(t, n) == IF t.parent[n] = 0 THEN 0 ELSE 1 + depth(t, t.parent[n])

\* the loop of top_level_group: climbs while p and p.parent are both set
RECURSIVE top_level_climb(_, _, _)
top_level_climb(t, lst, p) ==
    IF p # 0 /\ t.parent[p] # 0
    THEN top_level_climb(t, p, t.parent[p])
    ELSE lst

top_level_group(t, n) ==
    IF t.parent[n] = 0 THEN NoGroup
    ELSE LET lst == top_level_climb(t, n, t.parent[n])
         IN  IF lst # n THEN t.name[lst] ELSE NoGroup

RECURSIVE collect_hosts(_, _, _)
RECURSIVE collect_hosts_children(_, _, _)
\* collect_hosts that skips the hosts of collapsed groups
collect_hosts_expanded_only(t, chk, n) ==
    IF t.kind[n] = "host"
    THEN (IF chk[n] = 2 THEN <<t.name[n]>> ELSE <<>>)
    ELSE IF expanded[n] THEN collect_hosts_children(t, chk, children(t, n)) ELSE <<>>

collect_hosts(t, chk, n) ==
    IF t.kind[n] = "host"
    THEN (IF chk[n] = 2 THEN <<t.name[n]>> ELSE <<>>)
    ELSE collect_hosts_children(t, chk, children(t, n))

collect_hosts_children(t, chk, cs) ==
    IF cs = <<>> THEN <<>>
    ELSE collect_hosts(t, chk, Head(cs)) \o collect_hosts_children(t, chk, Tail(cs))

\* from_dict: every node starts unchecked and collapsed; each node, once its
\* subtree is built, recomputes its state from its children.
RECURSIVE from_dict_recompute(_, _, _)
from_dict_recompute(t, chk, n) ==
    IF n = 0 THEN chk
    ELSE from_dict_recompute(t, _recompute_from_children(t, chk, n), n - 1)

\* d["name"] and d["kind"] raise KeyError on a dict without the key
from_dict_raises(t) ==
    \E n \in 1..NumNodes(t) : t.name[n] = NoKey \/ t.kind[n] = NoKey

from_dict(t) ==
    [ checked  |-> from_dict_recompute(t, [n \in 1..NumNodes(t) |-> 0], NumNodes(t)),
      expanded |-> [n \in 1..NumNodes(t) |-> FALSE] ]

\* ------------------------------------------------------------------
\* TreePane
\* ------------------------------------------------------------------
\* The loaded tree (only read while root # 0).
T == Trees[root]

\* _expand_to_depth without the depth test: every group is expanded
_expand_to_depth_every_group(t, exp, n, d) ==
    [m \in 1..NumNodes(t) |-> t.kind[m] = "group"]

RECURSIVE _expand_to_depth(_, _, _, _)
RECURSIVE _expand_to_depth_children(_, _, _, _)
_expand_to_depth(t, exp, n, d) ==
    IF d <= 0 \/ t.kind[n] # "group" THEN exp
    ELSE _expand_to_depth_children(t, [exp EXCEPT ![n] = TRUE], children(t, n), d - 1)

_expand_to_depth_children(t, exp, cs, d) ==
    IF cs = <<>> THEN exp
    ELSE _expand_to_depth_children(t, _expand_to_depth(t, exp, Head(cs), d), Tail(cs), d)

_rebuild_flat(r, exp) == IF r # 0 THEN iter_visible(Trees[r], exp, 1) ELSE <<>>

_visible_rows == Max(1, winH - 2)

\* the value of self.top after _ensure_cursor_visible, for cursor idx
_ensure_cursor_visible(idx, tp) ==
    IF idx < tp THEN idx
    ELSE IF idx >= tp + _visible_rows THEN idx - _visible_rows + 1
    ELSE tp

\* the node under the cursor, 0 for None
current == IF 0 <= index /\ index < Len(flat) THEN flat[index + 1] ELSE 0

\* TreeNode is a dataclass: a == b compares (name, kind, children, parent,
\* expanded, checked) field by field, left to right, stopping at the first
\* difference; an object equals itself without a comparison. A comparison that
\* comes back to a pair it is still comparing never ends (RecursionError).
RECURSIVE node_eq(_, _, _)
RECURSIVE list_eq(_, _, _)
node_eq(a, b, open) ==
    IF a = b THEN "true"
    ELSE IF a = 0 \/ b = 0 THEN "false"
    ELSE IF <<a, b>> \in open THEN "recursion"
    ELSE IF T.name[a] # T.name[b] \/ T.kind[a] # T.kind[b] THEN "false"
    ELSE LET inner == open \cup {<<a, b>>}
             cs    == list_eq(children(T, a), children(T, b), inner)
             par   == node_eq(T.parent[a], T.parent[b], inner)
         IN  IF cs # "true" THEN cs
             ELSE IF par # "true" THEN par
             ELSE IF expanded[a] = expanded[b] /\ checked[a] = checked[b] THEN "true"
             ELSE "false"

\* list.__eq__: different lengths differ; else the first unequal pair decides
list_eq(xs, ys, open) ==
    IF Len(xs) # Len(ys) THEN "false"
    ELSE IF xs = <<>> THEN "true"
    ELSE LET h == node_eq(Head(xs), Head(ys), open)
         IN  IF h # "true" THEN h ELSE list_eq(Tail(xs), Tail(ys), open)

\* self._flat.index(p): the 0-based row of the first node equal to p,
\* -1 when there is none (ValueError), -2 when a comparison never ends
RECURSIVE list_index(_, _, _)
list_index(rows, p, i) ==
    IF rows = <<>> THEN -1
    ELSE LET e == node_eq(Head(rows), p, {})
         IN  IF e = "true" THEN i
             ELSE IF e = "recursion" THEN -2
             ELSE list_index(Tail(rows), p, i + 1)

flat_index(p) == list_index(flat, p, 0)

NoOp(op) == [op |-> op, node |-> 0, before |-> 0]

\* expand_levels values handed to set_tree
MaxExpandLevels == 3

\* the window heights the terminal reports
WinHeights == {3, 4}

\* the pane's tree state, as recorded when a call raises
Pane == <<root, checked, expanded, flat, index, top>>

\* set_tree that assigns self.root node by node while the descriptor is read
set_tree_installs_partial(i, lv) ==
    LET t == Trees[i]
    IN  /\ from_dict_raises(t)
        /\ root' = i
        /\ checked' = [n \in 1..NumNodes(t) |-> 0]
        /\ expanded' = [n \in 1..NumNodes(t) |-> FALSE]
        /\ last' = [op |-> "set_tree_raised", node |-> 0, before |-> 0, was |-> Pane]
        /\ UNCHANGED <<flat, index, top, winH>>

\* set_tree: from_dict raises before self.root is assigned
set_tree_raises(i, lv) ==
    /\ from_dict_raises(Trees[i])
    /\ last' = [op |-> "set_tree_raised", node |-> 0, before |-> 0, was |-> Pane]
    /\ UNCHANGED <<root, checked, expanded, flat, index, top, winH>>

\* what set_tree builds from descriptor i: the nodes from_dict makes, expanded
\* by _expand_to_depth, and the flat view _rebuild_flat lists
set_tree_builds(i, lv) ==
    LET t   == Trees[i]
        nd  == from_dict(t)
        exp == _expand_to_depth(t, nd.expanded, 1, Max(0, lv))
    IN  [checked |-> nd.checked, expanded |-> exp, flat |-> _rebuild_flat(i, exp)]

\* set_tree_builds for every descriptor that loads and every expand_levels
Built ==
    [i \in {k \in 1..Len(Trees) : ~from_dict_raises(Trees[k])} |->
        [lv \in 0..MaxExpandLevels |-> set_tree_builds(i, lv)]]

set_tree(i, lv) ==
    LET b == Built[i][lv]
    IN  /\ ~from_dict_raises(Trees[i])
        /\ root' = i
        /\ checked' = b.checked
        /\ expanded' = b.expanded
        /\ flat' = b.flat
        /\ index' = 0
        /\ top' = 0
        /\ last' = [op |-> "set_tree", node |-> 0, before |-> 0, levels |-> lv]
        /\ UNCHANGED winH

\* move() without the clamp to the rows of the flat view
move_unclamped(delta) ==
    /\ flat # <<>>
    /\ index' = index + delta
    /\ top' = _ensure_cursor_visible(index', top)
    /\ last' = NoOp("move")
    /\ UNCHANGED <<root, checked, expanded, flat, winH>>

move(delta) ==
    /\ flat # <<>>
    /\ index' = Max(0, Min(Len(flat) - 1, index + delta))
    /\ top' = _ensure_cursor_visible(index', top)
    /\ last' = NoOp("move")
    /\ UNCHANGED <<root, checked, expanded, flat, winH>>

\* move() on an empty flat view returns at once
move_empty ==
    /\ flat = <<>>
    /\ last' = NoOp("move")
    /\ UNCHANGED <<root, checked, expanded, flat, index, top, winH>>

page_up == move(-_visible_rows)

page_down == move(_visible_rows)

to_home ==
    /\ index' = 0
    /\ top' = _ensure_cursor_visible(0, top)
    /\ last' = NoOp("to_home")
    /\ UNCHANGED <<root, checked, expanded, flat, winH>>

to_end ==
    /\ flat # <<>>
    /\ index' = Len(flat) - 1
    /\ top' = _ensure_cursor_visible(index', top)
    /\ last' = NoOp("to_end")
    /\ UNCHANGED <<root, checked, expanded, flat, winH>>

toggle_check_current ==
    /\ current # 0
    /\ checked' = toggle_check(T, checked, current)
    /\ flat' = _rebuild_flat(root, expanded)
    /\ last' = [op |-> "toggle_check", node |-> current, before |-> checked[current],
                was |-> checked, flags |-> expanded]
    /\ UNCHANGED <<root, expanded, index, top, winH>>

\* expand_current that flips the flag instead of setting it
expand_current_flips ==
    /\ current # 0
    /\ IF T.kind[current] = "group"
       THEN /\ expanded' = [expanded EXCEPT ![current] = ~expanded[current]]
            /\ flat' = _rebuild_flat(root, expanded')
       ELSE UNCHANGED <<expanded, flat>>
    /\ last' = [op |-> "expand", node |-> current, before |-> checked[current],
                wasExpanded |-> expanded[current]]
    /\ UNCHANGED <<root, checked, index, top, winH>>

expand_current ==
    /\ current # 0
    /\ IF T.kind[current] = "group"
       THEN /\ expanded' = [expanded EXCEPT ![current] = TRUE]
            /\ flat' = IF ~expanded[current] THEN _rebuild_flat(root, expanded') ELSE flat
       ELSE UNCHANGED <<expanded, flat>>
    /\ last' = [op |-> "expand", node |-> current, before |-> checked[current],
                wasExpanded |-> expanded[current]]
    /\ UNCHANGED <<root, checked, index, top, winH>>

collapse_current_or_go_parent ==
    /\ current # 0
    /\ IF T.kind[current] = "group" /\ expanded[current]
       THEN /\ expanded' = [expanded EXCEPT ![current] = FALSE]
            /\ flat' = _rebuild_flat(root, expanded')
            /\ last' = [op |-> "collapse", node |-> current, before |-> checked[current],
                        wasExpanded |-> TRUE]
            /\ UNCHANGED <<index, top>>
       ELSE LET idx == IF T.parent[current] # 0 THEN flat_index(T.parent[current]) ELSE -1
            IN  IF idx >= 0
                THEN /\ index' = idx
                     /\ top' = _ensure_cursor_visible(idx, top)
                     /\ last' = [op |-> "collapse", node |-> current,
                                 before |-> checked[current], wasExpanded |-> FALSE]
                     /\ UNCHANGED <<expanded, flat>>
                ELSE /\ last' = [op |-> IF idx = -2 THEN "collapse_raised" ELSE "collapse",
                                 node |-> current, before |-> checked[current],
                                 wasExpanded |-> FALSE]
                     /\ UNCHANGED <<expanded, flat, index, top>>
    /\ UNCHANGED <<root, checked, winH>>

\* toggle_expand_current without the call of _rebuild_flat
toggle_expand_current_keeps_flat ==
    /\ current # 0
    /\ IF T.kind[current] = "group" /\ children(T, current) # <<>>
       THEN expanded' = toggle_expand(T, expanded, current)
       ELSE UNCHANGED expanded
    /\ last' = [op |-> "toggle_expand", node |-> current, before |-> checked[current]]
    /\ UNCHANGED <<root, checked, flat, index, top, winH>>

toggle_expand_current ==
    /\ current # 0
    /\ IF T.kind[current] = "group" /\ children(T, current) # <<>>
       THEN /\ expanded' = toggle_expand(T, expanded, current)
            /\ flat' = _rebuild_flat(root, expanded')
       ELSE UNCHANGED <<expanded, flat>>
    /\ last' = [op |-> "toggle_expand", node |-> current, before |-> checked[current]]
    /\ UNCHANGED <<root, checked, index, top, winH>>

\* sorted(): ascending in Python's string order
RECURSIVE sorted(_)
sorted(S) ==
    IF S = {} THEN <<>>
    ELSE LET m == CHOOSE x \in S : \A y \in S : NameRank(x) <= NameRank(y)
         IN  <<m>> \o sorted(S \ {m})

get_selected_hosts ==
    IF root # 0 THEN sorted(SeqToSet(collect_hosts(T, checked, 1))) ELSE <<>>

\* dedupe that keeps the last occurrence of each token instead of the first
RECURSIVE dedupe_keep_last(_, _)
dedupe_keep_last(items, seen) ==
    IF items = <<>> THEN <<>>
    ELSE IF Head(items) \in SeqToSet(Tail(items)) THEN dedupe_keep_last(Tail(items), seen)
    ELSE <<Head(items)>> \o dedupe_keep_last(Tail(items), seen)

\* "dedupe preserving order"
RECURSIVE dedupe(_, _)
dedupe(items, seen) ==
    IF items = <<>> THEN <<>>
    ELSE IF Head(items) \in seen THEN dedupe(Tail(items), seen)
    ELSE <<Head(items)>> \o dedupe(Tail(items), seen \cup {Head(items)})

\* the (name, top-level group) pairs of the checked hosts among the rows of view
selected_pairs(view) ==
    LET rows == SelectSeq(view, LAMBDA n : T.kind[n] = "host" /\ checked[n] = 2)
    IN  [i \in 1..Len(rows) |-> [h |-> T.name[rows[i]], s |-> top_level_group(T, rows[i])]]

limit_patterns_of(view) ==
    LET selected  == selected_pairs(view)
        counts(h) == Cardinality({i \in 1..Len(selected) : selected[i].h = h})
        out == [i \in 1..Len(selected) |->
                   IF counts(selected[i].h) > 1 /\ selected[i].s # NoGroup
                   THEN selected[i].s \o ":&" \o selected[i].h
                   ELSE selected[i].h]
    IN  dedupe(out, {})

get_selected_limit_patterns ==
    IF root = 0 THEN <<>> ELSE limit_patterns_of(flat)

\* ------------------------------------------------------------------
\* The tree's specification
\* ------------------------------------------------------------------
TreeInit ==
    /\ root = 0
    /\ checked = <<>>
    /\ expanded = <<>>
    /\ flat = <<>>
    /\ index = 0
    /\ top = 0
    /\ winH \in WinHeights
    /\ last = NoOp("init")

\* the operations on a loaded pane
TreeOps ==
    \/ \E delta \in {-1, 1} : move(delta) /\ UNCHANGED NotTree
    \/ move_empty /\ UNCHANGED NotTree
    \/ page_up /\ UNCHANGED NotTree
    \/ page_down /\ UNCHANGED NotTree
    \/ to_home /\ UNCHANGED NotTree
    \/ to_end /\ UNCHANGED NotTree
    \/ toggle_check_current /\ UNCHANGED NotTree
    \/ expand_current /\ UNCHANGED NotTree
    \/ collapse_current_or_go_parent /\ UNCHANGED NotTree
    \/ toggle_expand_current /\ UNCHANGED NotTree

TreeNext ==
    \/ \E i \in WellFormed, lv \in 0..MaxExpandLevels : set_tree(i, lv) /\ UNCHANGED NotTree
    \/ TreeOps

\* TreeNode.toggle_check called on a node directly, visible or not
toggle_check_node(n) ==
    /\ root # 0
    /\ n \in 1..NumNodes(T)
    /\ checked' = toggle_check(T, checked, n)
    /\ last' = [op |-> "toggle_check", node |-> n, before |-> checked[n], was |-> checked, flags |-> expanded]
    /\ UNCHANGED <<root, expanded, flat, index, top, winH>>

\* the pane and its nodes used with any descriptor from_dict accepts
TreeNextAny ==
    \/ \E i \in 1..Len(Trees) \ WellFormed, lv \in 0..MaxExpandLevels :
           set_tree(i, lv) /\ UNCHANGED NotTree
    \/ \E i \in 1..Len(Trees) \ WellFormed, lv \in 0..MaxExpandLevels :
           set_tree_raises(i, lv) /\ UNCHANGED NotTree
    \/ \E n \in 1..Len(checked) : toggle_check_node(n) /\ UNCHANGED NotTree
    \/ TreeOps

\* the tree before set_tree, for the specifications of the other components
TreeIdle ==
    /\ root = 0
    /\ checked = <<>>
    /\ expanded = <<>>
    /\ flat = <<>>
    /\ index = 0
    /\ top = 0
    /\ winH = 3
    /\ last = NoOp("init")

\* ------------------------------------------------------------------
\* Properties of the tree
\* ------------------------------------------------------------------
Nodes == IF root = 0 THEN {} ELSE 1..NumNodes(T)

Hosts == {n \in Nodes : T.kind[n] = "host"}

Groups == {n \in Nodes : T.kind[n] = "group"}

ChildSet(n) == {m \in Nodes : T.parent[m] = n}

RECURSIVE IsUnder(_, _)
IsUnder(m, n) == T.parent[m] # 0 /\ (T.parent[m] = n \/ IsUnder(T.parent[m], n))

HostsUnder(n) == {h \in Hosts : IsUnder(h, n)}

CheckedHosts == {h \in Hosts : checked[h] = 2}

SelectedNames == SeqToSet(get_selected_hosts)

PatternSet == SeqToSet(get_selected_limit_patterns)

Occurrences(seq, x) == Cardinality({i \in 1..Len(seq) : seq[i] = x})

Qualified(g, h) == g \o ":&" \o h

\* C1: every group that has children is Checked iff all its children are
\* Checked, Unchecked iff all its children are Unchecked, and Partial otherwise.
C1_TriStateInvariant ==
    \A n \in Groups :
        ChildSet(n) # {} =>
            LET states == {checked[c] : c \in ChildSet(n)}
            IN  /\ (checked[n] = 2) <=> (states = {2})
                /\ (checked[n] = 0) <=> (states = {0})
                /\ (checked[n] = 1) <=> (states # {2} /\ states # {0})

\* C1's case: after a toggle the root is Partial over a Checked and an Unchecked group.
C1_Witness ==
    /\ root = 1
    /\ last.op = "toggle_check"
    /\ checked[1] = 1
    /\ checked[2] = 2
    /\ checked[5] = 0

\* the top-level groups under which host name h is Checked
CheckedGroupsOf(h) ==
    {top_level_group(T, n) : n \in {m \in CheckedHosts : T.name[m] = h}} \ {NoGroup}

GroupNames == {T.name[n] : n \in Groups}

HostNames == {T.name[n] : n \in Hosts}

\* C2: a host name Checked under two or more top-level groups yields exactly one
\* token "<group>:&<host>" per such group and no bare token; a host name Checked
\* under exactly one group, or on a host directly below the root, yields the bare name.
C2_Disambiguation ==
    root # 0 =>
        \A h \in HostNames :
            LET gs == CheckedGroupsOf(h)
                pats == get_selected_limit_patterns
            IN  IF Cardinality(gs) >= 2
                THEN /\ \A g \in gs : Occurrences(pats, Qualified(g, h)) = 1
                     /\ h \notin PatternSet
                ELSE IF \E n \in CheckedHosts : T.name[n] = h
                THEN /\ Occurrences(pats, h) = 1
                     /\ \A g \in GroupNames : Qualified(g, h) \notin PatternSet
                ELSE /\ h \notin PatternSet
                     /\ \A g \in GroupNames : Qualified(g, h) \notin PatternSet

\* the host names the tokens of the limit patterns stand for
CoveredNames ==
    {h \in HostNames : h \in PatternSet \/ \E g \in GroupNames : Qualified(g, h) \in PatternSet}

\* C3: every Checked host node is represented by a token of the limit patterns
\* (its bare name, or its name qualified by its top-level group), whatever is
\* expanded or collapsed, and the names covered are exactly get_selected_hosts().
C3_NoCheckedHostDropped ==
    root # 0 =>
        /\ \A n \in CheckedHosts :
               \/ T.name[n] \in PatternSet
               \/ /\ top_level_group(T, n) # NoGroup
                  /\ Qualified(top_level_group(T, n), T.name[n]) \in PatternSet
        /\ CoveredNames = SelectedNames

ToggledGroup == last.op = "toggle_check" /\ T.kind[last.node] = "group"

MaxBytes == 3

\* the bytes the pseudo-terminal holds before a write to the slave side blocks
PtyCap == 2

\* the most bytes one f.read(4096) returns, scaled down
ReadSize == 2

ExitCodes == {0, 1}

\* the EOF sentinel
None == [none |-> TRUE, data |-> <<>>]

Item(c) == [none |-> FALSE, data |-> c]

Streaming == mainPc \in {"get", "empty", "drain"}

\* start(): openpty, Popen, close the slave end, start the reader thread;
\* __enter__ returns and the for loop calls stream()
start ==
    /\ mainPc = "init"
    /\ mainPc' = "get"
    /\ childPc' = "running"
    /\ masterFd' = "open"
    /\ slaveFd' = "closed"
    /\ readerPc' = "read"
    /\ UNCHANGED <<total, written, exitCode, pty, chunk, readerEnd, queue, sentinels,
                   lateItems, yielded, abandoned, waitCalled, waitResult>>

\* start() when Popen raises: both descriptors of openpty stay open, no thread starts
start_fails ==
    /\ mainPc = "init"
    /\ mainPc' = "spawn_failed"
    /\ masterFd' = "open"
    /\ slaveFd' = "open"
    /\ UNCHANGED <<childPc, total, written, exitCode, pty, readerPc, chunk, readerEnd,
                   queue, sentinels, lateItems, yielded, abandoned, waitCalled, waitResult>>

\* the child writes its next byte; the write blocks while the terminal is full
child_write ==
    /\ childPc = "running"
    /\ written < total
    /\ Len(pty) < PtyCap
    /\ pty' = Append(pty, written + 1)
    /\ written' = written + 1
    /\ UNCHANGED <<mainPc, childPc, total, exitCode, masterFd, slaveFd, readerPc, chunk,
                   readerEnd, queue, sentinels, lateItems, yielded, abandoned,
                   waitCalled, waitResult>>

\* the child exits, which closes the last descriptor of the slave side
child_exit ==
    /\ childPc = "running"
    /\ written = total
    /\ childPc' = "exited"
    /\ \E c \in ExitCodes : exitCode' = c
    /\ UNCHANGED <<mainPc, total, written, pty, masterFd, slaveFd, readerPc, chunk,
                   readerEnd, queue, sentinels, lateItems, yielded, abandoned,
                   waitCalled, waitResult>>

\* a reader that runs inside stream() instead of in a thread of its own
reader_read_while_streaming ==
    /\ readerPc = "read"
    /\ mainPc \in {"get", "empty", "drain"}
    /\ pty # <<>>
    /\ \E k \in 1..Min(Len(pty), ReadSize) :
           /\ chunk' = SubSeq(pty, 1, k)
           /\ pty' = SubSeq(pty, k + 1, Len(pty))
    /\ readerPc' = "put"
    /\ UNCHANGED <<mainPc, childPc, total, written, exitCode, masterFd, slaveFd,
                   readerEnd, queue, sentinels, lateItems, yielded, abandoned,
                   waitCalled, waitResult>>

\* _reader: chunk = f.read(4096) returns some of the bytes that are there
reader_read ==
    /\ readerPc = "read"
    /\ pty # <<>>
    /\ \E k \in 1..Min(Len(pty), ReadSize) :
           /\ chunk' = SubSeq(pty, 1, k)
           /\ pty' = SubSeq(pty, k + 1, Len(pty))
    /\ readerPc' = "put"
    /\ UNCHANGED <<mainPc, childPc, total, written, exitCode, masterFd, slaveFd,
                   readerEnd, queue, sentinels, lateItems, yielded, abandoned,
                   waitCalled, waitResult>>

\* _reader: q.put(chunk)
reader_put ==
    /\ readerPc = "put"
    /\ queue' = Append(queue, Item(chunk))
    /\ lateItems' = IF sentinels > 0 THEN lateItems + 1 ELSE lateItems
    /\ chunk' = <<>>
    /\ readerPc' = "read"
    /\ UNCHANGED <<mainPc, childPc, total, written, exitCode, pty, masterFd, slaveFd,
                   readerEnd, sentinels, yielded, abandoned, waitCalled, waitResult>>

\* a reader whose OSError branch leaves the function without the sentinel
reader_break_oserror_returns ==
    /\ readerPc = "read"
    /\ pty = <<>>
    /\ childPc = "exited"
    /\ slaveFd = "closed"
    /\ \E how \in {"eof", "oserror"} :
           /\ readerEnd' = how
           /\ readerPc' = IF how = "eof" THEN "close" ELSE "done"
    /\ UNCHANGED <<mainPc, childPc, total, written, exitCode, pty, masterFd, slaveFd,
                   chunk, queue, sentinels, lateItems, yielded, abandoned,
                   waitCalled, waitResult>>

\* _reader: with nothing left to read and every slave descriptor closed, f.read
\* returns b"" (end of file) or raises OSError (EIO), as the platform has it;
\* both leave the loop
reader_break ==
    /\ readerPc = "read"
    /\ pty = <<>>
    /\ childPc = "exited"
    /\ slaveFd = "closed"
    /\ \E how \in {"eof", "oserror"} : readerEnd' = how
    /\ readerPc' = "close"
    /\ UNCHANGED <<mainPc, childPc, total, written, exitCode, pty, masterFd, slaveFd,
                   chunk, queue, sentinels, lateItems, yielded, abandoned,
                   waitCalled, waitResult>>

\* _reader: f.read raises an OSError while the child still holds the slave
\* open (a failure of the read itself, not the hangup); "except OSError: break"
\* leaves the loop as for the hangup
reader_io_error ==
    /\ readerPc = "read"
    /\ childPc = "running"
    /\ readerEnd' = "io_error"
    /\ readerPc' = "close"
    /\ UNCHANGED <<mainPc, childPc, total, written, exitCode, pty, masterFd, slaveFd,
                   chunk, queue, sentinels, lateItems, yielded, abandoned,
                   waitCalled, waitResult>>

\* _reader: leaving "with os.fdopen(fd, closefd=True)" closes the master descriptor
reader_close ==
    /\ readerPc = "close"
    /\ masterFd' = "closed"
    /\ readerPc' = "sentinel"
    /\ UNCHANGED <<mainPc, childPc, total, written, exitCode, pty, slaveFd, chunk,
                   readerEnd, queue, sentinels, lateItems, yielded, abandoned,
                   waitCalled, waitResult>>

\* _reader: finally: q.put(None)
reader_sentinel ==
    /\ readerPc = "sentinel"
    /\ queue' = Append(queue, None)
    /\ sentinels' = sentinels + 1
    /\ readerPc' = "done"
    /\ UNCHANGED <<mainPc, childPc, total, written, exitCode, pty, masterFd, slaveFd,
                   chunk, readerEnd, lateItems, yielded, abandoned, waitCalled, waitResult>>

\* stream(): queue.get(timeout=0.05) returns an item: None ends the stream, a
\* chunk is yielded and the loop comes back for the next one
stream_get ==
    /\ mainPc = "get"
    /\ queue # <<>>
    /\ queue' = Tail(queue)
    /\ IF Head(queue).none
       THEN mainPc' = "returned" /\ UNCHANGED yielded
       ELSE mainPc' = "get" /\ yielded' = yielded \o Head(queue).data
    /\ UNCHANGED <<childPc, total, written, exitCode, pty, masterFd, slaveFd, readerPc,
                   chunk, readerEnd, sentinels, lateItems, abandoned, waitCalled, waitResult>>

\* stream(): the queue stayed empty for the timeout and get raises Empty
stream_timeout ==
    /\ mainPc = "get"
    /\ queue = <<>>
    /\ mainPc' = "empty"
    /\ UNCHANGED <<childPc, total, written, exitCode, pty, masterFd, slaveFd, readerPc,
                   chunk, readerEnd, queue, sentinels, lateItems, yielded, abandoned,
                   waitCalled, waitResult>>

\* stream(): except Empty: if self.process.poll() is not None: drain, else continue
stream_poll ==
    /\ mainPc = "empty"
    /\ mainPc' = IF childPc = "exited" THEN "drain" ELSE "get"
    /\ UNCHANGED <<childPc, total, written, exitCode, pty, masterFd, slaveFd, readerPc,
                   chunk, readerEnd, queue, sentinels, lateItems, yielded, abandoned,
                   waitCalled, waitResult>>

\* stream(): while not self.queue.empty(): get_nowait, return on None, else yield;
\* return when the queue is empty
stream_drain ==
    /\ mainPc = "drain"
    /\ IF queue = <<>>
       THEN mainPc' = "returned" /\ UNCHANGED <<queue, yielded>>
       ELSE /\ queue' = Tail(queue)
            /\ IF Head(queue).none
               THEN mainPc' = "returned" /\ UNCHANGED yielded
               ELSE mainPc' = "drain" /\ yielded' = yielded \o Head(queue).data
    /\ UNCHANGED <<childPc, total, written, exitCode, pty, masterFd, slaveFd, readerPc,
                   chunk, readerEnd, sentinels, lateItems, abandoned, waitCalled, waitResult>>

\* the body of the with block raises, or never iterates stream(): __exit__ runs
\* and calls wait()
abandon ==
    /\ Streaming
    /\ abandoned' = TRUE
    /\ waitCalled' = TRUE
    /\ mainPc' = "wait"
    /\ UNCHANGED <<childPc, total, written, exitCode, pty, masterFd, slaveFd, readerPc,
                   chunk, readerEnd, queue, sentinels, lateItems, yielded, waitResult>>

\* stream() has returned, the for loop ends, __exit__ runs and calls wait()
exit_calls_wait ==
    /\ mainPc = "returned"
    /\ waitCalled' = TRUE
    /\ mainPc' = "wait"
    /\ UNCHANGED <<childPc, total, written, exitCode, pty, masterFd, slaveFd, readerPc,
                   chunk, readerEnd, queue, sentinels, lateItems, yielded, abandoned,
                   waitResult>>

\* wait(): self.process.wait() returns the exit code once the child has exited;
\* __exit__ returns and the with block is left
wait_returns ==
    /\ mainPc = "wait"
    /\ childPc = "exited"
    /\ waitResult' = exitCode
    /\ mainPc' = "exited"
    /\ UNCHANGED <<childPc, total, written, exitCode, pty, masterFd, slaveFd, readerPc,
                   chunk, readerEnd, queue, sentinels, lateItems, yielded, abandoned,
                   waitCalled>>

RunnerIdle ==
    /\ mainPc = "init"
    /\ childPc = "none"
    /\ total = 0
    /\ written = 0
    /\ exitCode = -1
    /\ pty = <<>>
    /\ masterFd = "none"
    /\ slaveFd = "none"
    /\ readerPc = "none"
    /\ chunk = <<>>
    /\ readerEnd = "none"
    /\ queue = <<>>
    /\ sentinels = 0
    /\ lateItems = 0
    /\ yielded = <<>>
    /\ abandoned = FALSE
    /\ waitCalled = FALSE
    /\ waitResult = -1

RunnerInit ==
    /\ mainPc = "init"
    /\ childPc = "none"
    /\ total \in 0..MaxBytes
    /\ written = 0
    /\ exitCode = -1
    /\ pty = <<>>
    /\ masterFd = "none"
    /\ slaveFd = "none"
    /\ readerPc = "none"
    /\ chunk = <<>>
    /\ readerEnd = "none"
    /\ queue = <<>>
    /\ sentinels = 0
    /\ lateItems = 0
    /\ yielded = <<>>
    /\ abandoned = FALSE
    /\ waitCalled = FALSE
    /\ waitResult = -1

ChildNext == child_write \/ child_exit

ReaderNext == reader_read \/ reader_put \/ reader_break \/ reader_close \/ reader_sentinel

StreamNext == stream_get \/ stream_timeout \/ stream_poll \/ stream_drain

WaitNext == exit_calls_wait \/ wait_returns

RunnerNext ==
    \/ start /\ UNCHANGED NotRunner
    \/ start_fails /\ UNCHANGED NotRunner
    \/ child_write /\ UNCHANGED NotRunner
    \/ child_exit /\ UNCHANGED NotRunner
    \/ reader_read /\ UNCHANGED NotRunner
    \/ reader_put /\ UNCHANGED NotRunner
    \/ reader_break /\ UNCHANGED NotRunner
    \/ reader_close /\ UNCHANGED NotRunner
    \/ reader_sentinel /\ UNCHANGED NotRunner
    \/ stream_get /\ UNCHANGED NotRunner
    \/ stream_timeout /\ UNCHANGED NotRunner
    \/ stream_poll /\ UNCHANGED NotRunner
    \/ stream_drain /\ UNCHANGED NotRunner
    \/ abandon /\ UNCHANGED NotRunner
    \/ exit_calls_wait /\ UNCHANGED NotRunner
    \/ wait_returns /\ UNCHANGED NotRunner

\* ------------------------------------------------------------------
\* OutputPane
\* ------------------------------------------------------------------
LF == 10

CR == 13

ESC == 27

\* bytes.decode(errors="ignore"): UTF-8, dropping what does not decode.  The
\* one- and two-byte forms are modelled; the chunks below use no longer form.
RECURSIVE decode(_)
decode(bs) ==
    IF bs = <<>> THEN <<>>
    ELSE LET b == Head(bs) IN
         IF b < 128 THEN <<b>> \o decode(Tail(bs))
         ELSE IF b >= 194 /\ b <= 223
         THEN IF Len(bs) >= 2 /\ bs[2] >= 128 /\ bs[2] <= 191
              THEN <<(b - 192) * 64 + (bs[2] - 128)>> \o decode(Tail(Tail(bs)))
              ELSE decode(Tail(bs))
         ELSE decode(Tail(bs))

\* how many leading characters of s lie in lo..hi
RECURSIVE span(_, _, _)
span(s, lo, hi) ==
    IF s # <<>> /\ Head(s) >= lo /\ Head(s) <= hi
    THEN 1 + span(Tail(s), lo, hi)
    ELSE 0

Drop(s, k) == SubSeq(s, k + 1, Len(s))

\* a pattern that knows only the colour sequences: \x1B\[[0-9;]*m
ansi_match_sgr_only(s) ==
    IF Len(s) >= 2 /\ s[1] = ESC /\ s[2] = 91
    THEN LET p == span(Drop(s, 2), 48, 59)
             r == Drop(s, 2 + p)
         IN  IF r # <<>> /\ Head(r) = 109 THEN 2 + p + 1 ELSE 0
    ELSE 0

\* the length of the match of \x1B\[[0-?]*[ -/]*[@-~] at the head of s, 0 for none
ansi_match(s) ==
    IF Len(s) >= 2 /\ s[1] = ESC /\ s[2] = 91
    THEN LET p  == span(Drop(s, 2), 48, 63)
             im == span(Drop(s, 2 + p), 32, 47)
             r  == Drop(s, 2 + p + im)
         IN  IF r # <<>> /\ Head(r) >= 64 /\ Head(r) <= 126
             THEN 2 + p + im + 1
             ELSE 0
    ELSE 0

\* self._ansi_re.sub("", s)
RECURSIVE ansi_sub(_)
ansi_sub(s) ==
    IF s = <<>> THEN <<>>
    ELSE IF ansi_match(s) > 0 THEN ansi_sub(Drop(s, ansi_match(s)))
    ELSE <<Head(s)>> \o ansi_sub(Tail(s))

\* s.split("\r")[-1]: what follows the last carriage return
RECURSIVE after_last_cr(_)
after_last_cr(s) ==
    IF \E i \in 1..Len(s) : s[i] = CR
    THEN after_last_cr(Drop(s, CHOOSE i \in 1..Len(s) : s[i] = CR /\ \A j \in 1..(i - 1) : s[j] # CR))
    ELSE s

_clean_text(s) ==
    LET s1 == ansi_sub(s)
    IN  IF \E i \in 1..Len(s1) : s1[i] = CR THEN after_last_cr(s1) ELSE s1

\* the line boundaries of str.splitlines
IsLineBreak(c) == c \in {10, 11, 12, 13, 28, 29, 30, 133, 8232, 8233}

\* str.splitlines(): the pieces between line boundaries, "\r\n" being one
\* boundary, with no empty piece after a final boundary
RECURSIVE splitlines(_)
splitlines(s) ==
    IF s = <<>> THEN <<>>
    ELSE IF \E i \in 1..Len(s) : IsLineBreak(s[i])
    THEN LET i == CHOOSE k \in 1..Len(s) :
                      IsLineBreak(s[k]) /\ \A j \in 1..(k - 1) : ~IsLineBreak(s[j])
             n == IF s[i] = CR /\ i < Len(s) /\ s[i + 1] = LF THEN 2 ELSE 1
         IN  <<SubSeq(s, 1, i - 1)>> \o splitlines(Drop(s, i + n - 1))
    ELSE <<s>>

\* "if len(self.lines) > self.max_lines: self.lines = self.lines[-self.max_lines:]";
\* the slice [-0:] is the whole list
truncate_keep_oldest(ls, m) ==
    IF Len(ls) > m THEN SubSeq(ls, 1, m) ELSE ls

truncate(ls, m) ==
    IF Len(ls) > m
    THEN (IF m = 0 THEN ls ELSE SubSeq(ls, Len(ls) - Min(m, Len(ls)) + 1, Len(ls)))
    ELSE ls

\* the lines one chunk adds
parts_of(bytes) == splitlines(_clean_text(decode(bytes)))

\* the chunks handed to append_bytes, as bytes:
\*   "a\n"  "b\n"  "a\nb\n"  "b\na\nb\n"  "a"  "\n"
\*   "a\rb\n"  "a\na\rb\n"  ESC "[3ma\n"  "\xc3\xa9\n"  "a\r\nb\r\n"
Chunks ==
    << <<97, 10>>, <<98, 10>>, <<97, 10, 98, 10>>, <<98, 10, 97, 10, 98, 10>>,
       <<97>>, <<10>>,
       <<97, 13, 98, 10>>, <<97, 10, 97, 13, 98, 10>>,
       <<27, 91, 51, 109, 97, 10>>,
       <<195, 169, 10>>,
       <<97, 13, 10, 98, 13, 10>> >>

\* the bytes of the chunks that exercise the escape-sequence pattern: ESC, "[",
\* a parameter byte "1", an intermediate byte " ", the final bytes "m" and "E"
\* (a letter of the text as well), and LF
AnsiBytes == {ESC, 91, 49, 32, 109, 69, LF}

MaxAnsiLen == 5

\* ESC[31m ERROR ESC[0m LF
ColoredLine == <<ESC, 91, 51, 49, 109, 69, 82, 82, 79, 82, ESC, 91, 48, 109, LF>>

\* the largest max_lines a pane is created with (the program's 5000, scaled down)
MaxMaxLines == 2

\* lines appended between two clears
MaxAppended == 4

\* the heights of the pane's window: _max_visible is 0, 1 or 2 rows
OutHeights == {1, 3, 4}

\* the arguments scroll_lines is called with
ScrollSteps == {-2, -1, 1, 2}

BufOp(op, bytes) == [op |-> op, chunk |-> bytes, at |-> Len(appended)]

\* render: the lines drawn in a window of height h, top to bottom
render(ls, sc, h) ==
    LET visible == Max(0, h - 2)
        first   == Max(0, Len(ls) - visible - sc)
    IN  SubSeq(ls, first + 1, Min(Len(ls), first + visible))

\* history of an append: the offset and the window content just before it,
\* and whether the caller was in follow mode
AppendOp(bytes, follow) ==
    [ op |-> "append_bytes", chunk |-> bytes, at |-> Len(appended),
      scroll0 |-> scroll, shown |-> render(lines, scroll, outH), follow |-> follow ]

append_bytes(bytes) ==
    LET parts == parts_of(bytes)
    IN  /\ Len(appended) + Len(parts) <= MaxAppended
        /\ lines' = truncate(lines \o parts, max_lines)
        /\ appended' = appended \o parts
        /\ blast' = AppendOp(bytes, "direct")
        /\ UNCHANGED <<max_lines, scroll, outH>>

clear ==
    /\ lines' = <<>>
    /\ scroll' = 0
    /\ appended' = <<>>
    /\ blast' = [op |-> "clear", chunk |-> <<>>, at |-> 0]
    /\ UNCHANGED <<max_lines, outH>>

_max_visible == Max(0, outH - 2)

_max_scroll == Max(0, Len(lines) - _max_visible)

\* a scroll_lines that only keeps the offset from going below 0
scroll_lines_unclamped(n) ==
    /\ scroll + n <= MaxAppended
    /\ scroll' = Max(0, scroll + n)
    /\ blast' = BufOp("scroll_lines", <<>>)
    /\ UNCHANGED <<lines, max_lines, outH, appended>>

scroll_lines(n) ==
    /\ scroll' = Max(0, Min(scroll + n, _max_scroll))
    /\ blast' = BufOp("scroll_lines", <<>>)
    /\ UNCHANGED <<lines, max_lines, outH, appended>>

\* OutputPane.page_up: scroll_lines(self._max_visible())
out_page_up ==
    /\ scroll' = Max(0, Min(scroll + _max_visible, _max_scroll))
    /\ blast' = BufOp("page_up", <<>>)
    /\ UNCHANGED <<lines, max_lines, outH, appended>>

\* OutputPane.page_down: scroll_lines(-self._max_visible())
out_page_down ==
    /\ scroll' = Max(0, Min(scroll - _max_visible, _max_scroll))
    /\ blast' = BufOp("page_down", <<>>)
    /\ UNCHANGED <<lines, max_lines, outH, appended>>

to_top ==
    /\ scroll' = _max_scroll
    /\ blast' = BufOp("to_top", <<>>)
    /\ UNCHANGED <<lines, max_lines, outH, appended>>

to_bottom ==
    /\ scroll' = 0
    /\ blast' = BufOp("to_bottom", <<>>)
    /\ UNCHANGED <<lines, max_lines, outH, appended>>

BufIdle ==
    /\ lines = <<>>
    /\ max_lines = 1
    /\ scroll = 0
    /\ outH = 1
    /\ appended = <<>>
    /\ blast = [op |-> "init", chunk |-> <<>>, at |-> 0]

BufInit ==
    /\ lines = <<>>
    /\ max_lines \in 1..MaxMaxLines
    /\ scroll = 0
    /\ outH \in OutHeights
    /\ appended = <<>>
    /\ blast = [op |-> "init", chunk |-> <<>>, at |-> 0]

BufNext ==
    \/ \E c \in 1..Len(Chunks) : append_bytes(Chunks[c]) /\ UNCHANGED NotBuf
    \/ clear /\ UNCHANGED NotBuf
    \/ \E n \in ScrollSteps : scroll_lines(n) /\ UNCHANGED NotBuf
    \/ out_page_up /\ UNCHANGED NotBuf
    \/ out_page_down /\ UNCHANGED NotBuf
    \/ to_top /\ UNCHANGED NotBuf
    \/ to_bottom /\ UNCHANGED NotBuf

\* ------------------------------------------------------------------
\* build_ansible_cmd
\* ------------------------------------------------------------------
\* Python's None for an optional argument
NoArg == "<None>"

\* bool(x) of an optional string: None and "" are false
Truthy(x) == x # NoArg /\ x # ""

\* ",".join(hosts)
RECURSIVE join(_, _)
join(sep, xs) ==
    IF xs = <<>> THEN ""
    ELSE IF Len(xs) = 1 THEN xs[1]
    ELSE xs[1] \o sep \o join(sep, Tail(xs))

\* a command builder that puts the vault option before the limit
build_ansible_cmd_vault_first(playbook_path, inventory, hosts, ask_vault, vault_password_file) ==
    <<"ansible-playbook", "-i", inventory, playbook_path>>
    \o (IF Truthy(vault_password_file) THEN <<"--vault-password-file", vault_password_file>>
        ELSE IF ask_vault THEN <<"--ask-vault-pass">> ELSE <<>>)
    \o (IF hosts # <<>> THEN <<"--limit", join(",", hosts)>> ELSE <<>>)

\* build_ansible_cmd with "if ask_vault" in place of "elif ask_vault"
build_ansible_cmd_two_ifs(playbook_path, inventory, hosts, ask_vault, vault_password_file) ==
    <<"ansible-playbook", "-i", inventory, playbook_path>>
    \o (IF hosts # <<>> THEN <<"--limit", join(",", hosts)>> ELSE <<>>)
    \o (IF Truthy(vault_password_file) THEN <<"--vault-password-file", vault_password_file>>
        ELSE <<>>)
    \o (IF ask_vault THEN <<"--ask-vault-pass">> ELSE <<>>)

\* the list build_ansible_cmd returns
build_ansible_cmd(playbook_path, inventory, hosts, ask_vault, vault_password_file) ==
    <<"ansible-playbook", "-i", inventory, playbook_path>>
    \o (IF hosts # <<>> THEN <<"--limit", join(",", hosts)>> ELSE <<>>)
    \o (IF Truthy(vault_password_file) THEN <<"--vault-password-file", vault_password_file>>
        ELSE IF ask_vault THEN <<"--ask-vault-pass">> ELSE <<>>)

\* the environment variables extra_env may name
EnvNames == {"ANSIBLE_FORCE_COLOR"}

\* extra_env: None, the empty dict, or a dict that sets every name in EnvNames
ExtraEnvs == {NoArg, "{}", "1"}

\* os.environ.update(extra_env), when extra_env is a non-empty dict
environ_update(env, extra_env) ==
    IF extra_env \in {NoArg, "{}"} THEN env ELSE [n \in EnvNames |-> extra_env]

\* the host and pattern names a command is built from
LimitNames == {"sw1", "sw2", "A:&sw1"}

\* the longest hosts list a command is built from
MaxHosts == 2

HostLists == UNION {[1..n -> LimitNames] : n \in 0..MaxHosts}

VaultPaths == {NoArg, "", "/tmp/tmpvault"}

Playbooks == {"/proj/playbooks/site.yml"}

Inventories == {"/proj/inventory"}

\* one call of build_ansible_cmd
call_build_ansible_cmd ==
    \E pb \in Playbooks, inv \in Inventories, hosts \in HostLists,
       ask \in BOOLEAN, vf \in VaultPaths, xenv \in ExtraEnvs :
        /\ cmd' = build_ansible_cmd(pb, inv, hosts, ask, vf)
        /\ cargs' = [called |-> TRUE, playbook_path |-> pb, inventory |-> inv,
                     hosts |-> hosts, ask_vault |-> ask, vault_password_file |-> vf,
                     extra_env |-> xenv]
        /\ environ' = environ_update(environ, xenv)

CmdInit ==
    /\ cmd = <<>>
    /\ cargs = [called |-> FALSE, playbook_path |-> "", inventory |-> "",
                hosts |-> <<>>, ask_vault |-> FALSE, vault_password_file |-> NoArg,
                extra_env |-> NoArg]
    /\ environ = [n \in EnvNames |-> "unset"]

CmdNext == call_build_ansible_cmd /\ UNCHANGED NotCmd

\* ------------------------------------------------------------------
\* App: the UI loop and run()
\* ------------------------------------------------------------------
\* OutputPane's default max_lines, with which App.layout creates the pane
DefaultMaxLines == 5000

\* the keys typed at the terminal: KEY_RUN and KEY_PGUP
Keys == {"r", "PGUP"}

\* how many keys are typed during one behaviour
MaxTyped == 2

\* byte k of the child's output: "a\nb\na\nb\n..."
ChildByte(k) == IF k % 2 = 0 THEN LF ELSE 97 + ((k \div 2) % 2)

ChildBytes(ids) == [i \in 1..Len(ids) |-> ChildByte(ids[i])]

\* the path tempfile.NamedTemporaryFile gives the vault password file
VaultPath == "/tmp/tmpvault"

\* a key is typed; it waits in the terminal's input queue until getch returns it
type_key(k) ==
    /\ appPc \in {"getch", "run"}
    /\ typed < MaxTyped
    /\ keys' = Append(keys, [key |-> k, busy |-> (appPc = "run")])
    /\ typed' = typed + 1
    /\ UNCHANGED <<appPc, running, playbook_rel, st_hosts, vault, vault_password,
                   vaultFile, spawned, runEnd, queuedRun, lateKey, streamed>>

\* a new LiveRunner(cmd): nothing started, an empty queue; the child it will
\* start writes n bytes
new_runner(n) ==
    /\ mainPc' = "init"
    /\ childPc' = "none"
    /\ total' = n
    /\ written' = 0
    /\ exitCode' = -1
    /\ pty' = <<>>
    /\ masterFd' = "none"
    /\ slaveFd' = "none"
    /\ readerPc' = "none"
    /\ chunk' = <<>>
    /\ readerEnd' = "none"
    /\ queue' = <<>>
    /\ sentinels' = 0
    /\ lateItems' = 0
    /\ yielded' = <<>>
    /\ abandoned' = FALSE
    /\ waitCalled' = FALSE
    /\ waitResult' = -1

\* loop(): getch returns KEY_RUN and run() is called.  run() returns at once
\* while a run is in progress, without a playbook, when the password modal is
\* cancelled (pw is NoArg) and without hosts; otherwise it writes the vault
\* file, sets running, clears the pane, builds the command and creates the
\* runner.
key_run ==
    /\ appPc = "getch"
    /\ keys # <<>>
    /\ Head(keys).key = "r"
    /\ keys' = Tail(keys)
    /\ lateKey' = (lateKey \/ Head(keys).busy)
    /\ \E pw \in {NoArg, "secret"}, n \in 0..MaxBytes :
        LET ask   == vault /\ ~Truthy(vault_password)
            pw1   == IF ask THEN pw ELSE vault_password
            file  == vault /\ pw1 # NoArg
        IN  IF \/ running
               \/ ~Truthy(playbook_rel)
               \/ (ask /\ pw = NoArg)
               \/ st_hosts = <<>>
            THEN /\ vault_password' = IF running \/ ~Truthy(playbook_rel) THEN vault_password ELSE pw1
                 /\ UNCHANGED <<appPc, running, vaultFile, queuedRun, streamed>>
                 /\ UNCHANGED <<rvars, bvars, cvars>>
            ELSE /\ vault_password' = pw1
                 /\ vaultFile' = IF file THEN "exists" ELSE "none"
                 /\ running' = TRUE
                 /\ clear
                 /\ cmd' = build_ansible_cmd(playbook_rel, "/proj/inventory", st_hosts, FALSE,
                                             IF file THEN VaultPath ELSE NoArg)
                 /\ cargs' = [called |-> TRUE, playbook_path |-> playbook_rel,
                              inventory |-> "/proj/inventory", hosts |-> st_hosts,
                              ask_vault |-> FALSE,
                              vault_password_file |-> IF file THEN VaultPath ELSE NoArg,
                              extra_env |-> NoArg]
                 /\ environ' = environ_update(environ, NoArg)
                 /\ new_runner(n)
                 /\ streamed' = <<>>
                 /\ queuedRun' = (queuedRun \/ Head(keys).busy)
                 /\ appPc' = "run"
    /\ UNCHANGED <<tvars, typed, playbook_rel, st_hosts, vault, spawned, runEnd>>

\* loop(): getch returns KEY_PGUP: p_output.page_up(), render
key_pgup ==
    /\ appPc = "getch"
    /\ keys # <<>>
    /\ Head(keys).key = "PGUP"
    /\ keys' = Tail(keys)
    /\ lateKey' = (lateKey \/ Head(keys).busy)
    /\ out_page_up
    /\ UNCHANGED <<tvars, rvars, cvars>>
    /\ UNCHANGED <<appPc, typed, running, playbook_rel, st_hosts, vault, vault_password,
                   vaultFile, spawned, runEnd, queuedRun, streamed>>

\* run(): "with LiveRunner(cmd) as r": __enter__ calls start()
run_start ==
    /\ appPc = "run"
    /\ start
    /\ spawned' = spawned + 1
    /\ UNCHANGED <<tvars, bvars, cvars>>
    /\ UNCHANGED <<appPc, keys, typed, running, playbook_rel, st_hosts, vault, vault_password,
                   vaultFile, runEnd, queuedRun, lateKey, streamed>>

\* run(): Popen raises in start(); __exit__ is not called
run_start_fails ==
    /\ appPc = "run"
    /\ start_fails
    /\ UNCHANGED <<tvars, bvars, cvars, avars>>

\* the run loop's body with to_bottom() called whatever follow is
for_body_always_to_bottom(bytes) ==
    /\ lines' = truncate(lines \o parts_of(bytes), max_lines)
    /\ appended' = appended \o parts_of(bytes)
    /\ scroll' = 0
    /\ blast' = AppendOp(bytes, IF scroll = 0 THEN "yes" ELSE "no")
    /\ UNCHANGED <<max_lines, outH>>

\* the body of "for chunk in r.stream()": follow = (scroll == 0); append_bytes;
\* to_bottom() if follow; render
for_body(bytes) ==
    LET follow == scroll = 0
    IN  /\ lines' = truncate(lines \o parts_of(bytes), max_lines)
        /\ appended' = appended \o parts_of(bytes)
        /\ scroll' = IF follow THEN 0 ELSE scroll
        /\ blast' = AppendOp(bytes, IF follow THEN "yes" ELSE "no")
        /\ UNCHANGED <<max_lines, outH>>

\* run(): one step of stream() seen from the for loop; a chunk it yields goes
\* through the loop body
run_stream(step) ==
    /\ appPc = "run"
    /\ step
    /\ IF Len(yielded') > Len(yielded)
       THEN LET bytes == ChildBytes(SubSeq(yielded', Len(yielded) + 1, Len(yielded')))
            IN  for_body(bytes) /\ streamed' = Append(streamed, bytes)
       ELSE UNCHANGED <<bvars, streamed>>
    /\ UNCHANGED <<tvars, cvars>>
    /\ UNCHANGED <<appPc, keys, typed, running, playbook_rel, st_hosts, vault, vault_password,
                   vaultFile, spawned, runEnd, queuedRun, lateKey>>

\* run(): the steps of the with block that touch only the runner: an exception
\* in the loop body (abandon), __exit__ calling wait(), wait() returning
run_with(step) ==
    /\ appPc = "run"
    /\ step
    /\ UNCHANGED <<tvars, bvars, cvars, avars>>

\* the child and the reader thread run on their own
background(step) ==
    /\ step
    /\ UNCHANGED <<tvars, bvars, cvars, avars>>

\* a run() whose cleanup follows the with block instead of standing in a
\* finally: an exception skips it
run_finally_after_with ==
    /\ appPc = "run"
    /\ mainPc \in {"exited", "spawn_failed"}
    /\ LET raised == mainPc = "spawn_failed" \/ abandoned
       IN  /\ running' = raised
           /\ \E ok \in BOOLEAN :
                vaultFile' = IF vaultFile = "exists" /\ ~raised
                             THEN (IF ok THEN "removed" ELSE "remove_failed")
                             ELSE vaultFile
           /\ runEnd' = IF mainPc = "spawn_failed" THEN "spawn_failed"
                        ELSE IF abandoned THEN "raised" ELSE "returned"
           /\ appPc' = IF raised THEN "crashed" ELSE "getch"
    /\ UNCHANGED <<tvars, rvars, bvars, cvars>>
    /\ UNCHANGED <<keys, typed, playbook_rel, st_hosts, vault, vault_password,
                   spawned, queuedRun, lateKey, streamed>>

\* a run() that ends by adding a status line with the exit code
run_finally_with_status ==
    /\ appPc = "run"
    /\ mainPc \in {"exited", "spawn_failed"}
    /\ running' = FALSE
    /\ \E ok \in BOOLEAN :
         vaultFile' = IF vaultFile = "exists"
                      THEN (IF ok THEN "removed" ELSE "remove_failed")
                      ELSE vaultFile
    /\ runEnd' = IF mainPc = "spawn_failed" THEN "spawn_failed"
                 ELSE IF abandoned THEN "raised" ELSE "returned"
    /\ appPc' = IF mainPc = "spawn_failed" \/ abandoned THEN "crashed" ELSE "getch"
    /\ for_body(<<48 + waitResult, LF>>)
    /\ UNCHANGED <<tvars, rvars, cvars>>
    /\ UNCHANGED <<keys, typed, playbook_rel, st_hosts, vault, vault_password,
                   spawned, queuedRun, lateKey, streamed>>

\* run(): the with block has been left (wait() returned, or start() raised);
\* "_ = r.wait()" adds nothing; finally: running = False and os.remove of the
\* vault file, whose failure is swallowed.  An exception goes on to loop(),
\* which does not catch it.
run_finally ==
    /\ appPc = "run"
    /\ mainPc \in {"exited", "spawn_failed"}
    /\ running' = FALSE
    /\ \E ok \in BOOLEAN :
         vaultFile' = IF vaultFile = "exists"
                      THEN (IF ok THEN "removed" ELSE "remove_failed")
                      ELSE vaultFile
    /\ runEnd' = IF mainPc = "spawn_failed" THEN "spawn_failed"
                 ELSE IF abandoned THEN "raised" ELSE "returned"
    /\ appPc' = IF mainPc = "spawn_failed" \/ abandoned THEN "crashed" ELSE "getch"
    /\ UNCHANGED <<tvars, rvars, bvars, cvars>>
    /\ UNCHANGED <<keys, typed, playbook_rel, st_hosts, vault, vault_password,
                   spawned, queuedRun, lateKey, streamed>>

\* the application before its loop starts, for the other specifications
AppIdle ==
    /\ appPc = "getch"
    /\ keys = <<>>
    /\ typed = 0
    /\ running = FALSE
    /\ playbook_rel = NoArg
    /\ st_hosts = <<>>
    /\ vault = FALSE
    /\ vault_password = NoArg
    /\ vaultFile = "none"
    /\ spawned = 0
    /\ runEnd = "none"
    /\ queuedRun = FALSE
    /\ lateKey = FALSE
    /\ streamed = <<>>

\* loop() is entered with some playbook, host and vault selection made
AppInit ==
    /\ appPc = "getch"
    /\ keys = <<>>
    /\ typed = 0
    /\ running = FALSE
    /\ playbook_rel \in {NoArg, "playbooks/site.yml"}
    /\ st_hosts \in {<<>>, <<"sw1">>}
    /\ vault \in BOOLEAN
    /\ vault_password = NoArg
    /\ vaultFile = "none"
    /\ spawned = 0
    /\ runEnd = "none"
    /\ queuedRun = FALSE
    /\ lateKey = FALSE
    /\ streamed = <<>>

\* the output pane App.layout creates
AppBufInit ==
    /\ lines = <<>>
    /\ max_lines = DefaultMaxLines
    /\ scroll = 0
    /\ outH = 3
    /\ appended = <<>>
    /\ blast = [op |-> "init", chunk |-> <<>>, at |-> 0]

AppNext ==
    \/ \E k \in Keys : type_key(k) /\ UNCHANGED <<tvars, rvars, bvars, cvars, xvars>>
    \/ key_run /\ UNCHANGED xvars
    \/ key_pgup /\ UNCHANGED xvars
    \/ run_start /\ UNCHANGED xvars
    \/ run_start_fails /\ UNCHANGED xvars
    \/ run_stream(stream_get) /\ UNCHANGED xvars
    \/ run_stream(stream_timeout) /\ UNCHANGED xvars
    \/ run_stream(stream_poll) /\ UNCHANGED xvars
    \/ run_stream(stream_drain) /\ UNCHANGED xvars
    \/ run_with(abandon) /\ UNCHANGED xvars
    \/ run_with(exit_calls_wait) /\ UNCHANGED xvars
    \/ run_with(wait_returns) /\ UNCHANGED xvars
    \/ run_finally /\ UNCHANGED xvars
    \/ background(child_write) /\ UNCHANGED xvars
    \/ background(child_exit) /\ UNCHANGED xvars
    \/ background(reader_read) /\ UNCHANGED xvars
    \/ background(reader_put) /\ UNCHANGED xvars
    \/ background(reader_break) /\ UNCHANGED xvars
    \/ background(reader_close) /\ UNCHANGED xvars
    \/ background(reader_sentinel) /\ UNCHANGED xvars

\* the runner on a terminal whose reads can fail
RunnerNextIoError ==
    \/ RunnerNext
    \/ reader_io_error /\ UNCHANGED NotRunner

\* ------------------------------------------------------------------
\* The command preview (App._build_command_preview, KEY_SHOW_CMD)
\* ------------------------------------------------------------------
\* App.group_map: the hosts of each group of the inventory
GroupMap == [A |-> <<"sw1", "sw2">>]

\* AppState.group: its initial "(none)", a group of the inventory, a group
\* the site filter has removed from group_map
GroupNamesOfState == {"(none)", "A", "gone"}

\* the passwords the vault modal has stored, NoArg for None
VaultPasswords == {NoArg, "secret", "hunter2"}

\* the fields of self.state the preview is built from
AppStateNow ==
    [ playbook_rel |-> playbook_rel, hosts |-> st_hosts, group |-> st_group,
      vault |-> vault, vault_password |-> vault_password ]

\* "run_hosts = list(state.hosts); if not run_hosts and state.group and
\* state.group in group_map: run_hosts = list(group_map.get(state.group, []))"
run_hosts_of(st) ==
    IF st.hosts = <<>> /\ st.group \in DOMAIN GroupMap THEN GroupMap[st.group] ELSE st.hosts

\* a preview that shows the password where the file path would stand
_build_command_preview_unmasked(st) ==
    LET run_hosts == run_hosts_of(st)
        parts == <<"ansible-playbook", "-i", "/proj/inventory",
                   IF Truthy(st.playbook_rel) THEN "/proj/" \o st.playbook_rel ELSE "(none)">>
                 \o (IF run_hosts # <<>> THEN <<"--limit", join(",", run_hosts)>> ELSE <<>>)
                 \o (IF st.vault THEN <<"--vault-password-file", st.vault_password>> ELSE <<>>)
    IN  << "COMMAND PREVIEW", "", "Full command:", "  " \o join(" ", parts) >>

_build_command_preview(st) ==
    LET playbook_abs == IF Truthy(st.playbook_rel) THEN "/proj/" \o st.playbook_rel ELSE "(none)"
        inventory == "/proj/inventory"
        run_hosts == run_hosts_of(st)
        parts == <<"ansible-playbook", "-i", inventory, playbook_abs>>
                 \o (IF run_hosts # <<>> THEN <<"--limit", join(",", run_hosts)>> ELSE <<>>)
                 \o (IF st.vault THEN <<"--vault-password-file", "******">> ELSE <<>>)
    IN  << "COMMAND PREVIEW",
           "",
           "Inventory : " \o inventory,
           "Playbook  : " \o (IF Truthy(st.playbook_rel) THEN st.playbook_rel ELSE "(none)"),
           "Hosts     : " \o (IF run_hosts # <<>> THEN join(", ", run_hosts) ELSE "(none)"),
           "Vault     : " \o (IF st.vault THEN "ON" ELSE "OFF"),
           "",
           "Full command:",
           "  " \o join(" ", parts),
           "",
           "Note: Vault password file path is masked." >>

\* loop(): KEY_SHOW_CMD opens the preview modal
key_show_cmd ==
    /\ preview' = [shown |-> TRUE, lines |-> _build_command_preview(AppStateNow), vault |-> vault]
    /\ UNCHANGED <<st_group, playbook_rel, st_hosts, vault, vault_password>>

\* loop(): KEY_TOGGLE_VAULT
key_toggle_vault ==
    /\ vault' = ~vault
    /\ UNCHANGED <<st_group, preview, playbook_rel, st_hosts, vault_password>>

\* loop(): KEY_CLEAR_HOSTS
key_clear_hosts ==
    /\ st_hosts' = <<>>
    /\ UNCHANGED <<st_group, preview, playbook_rel, vault, vault_password>>

\* ------------------------------------------------------------------
\* The single-file front-end autom8.py: App.run_ansible, its Runner thread
\* and the _cleanup thread it starts. A playbook is selected throughout.
\* ------------------------------------------------------------------
\* how many times run_ansible is called
MaxLegacyCalls == 3

\* what PasswordModal.show() returns: "" on ESC, else the text typed
LegacyPasswords == {"", " ", "secret"}

\* str.strip() on those
strip(pw) == IF pw = " " THEN "" ELSE pw

\* App.runner is set and is_alive()
runner_is_alive == l_runs # <<>> /\ l_runs[Len(l_runs)] = "alive"

\* run_ansible(), with what the password modal returns when it is shown
run_ansible(password) ==
    /\ l_calls < MaxLegacyCalls
    /\ l_calls' = l_calls + 1
    /\ IF l_hosts = {}
       THEN /\ l_out' = "No hosts selected."
            /\ UNCHANGED <<l_runs, l_files, l_cleaners>>
       ELSE IF l_ask_vault /\ strip(password) = ""
       THEN /\ l_out' = "Vault password prompt canceled."
            /\ UNCHANGED <<l_runs, l_files, l_cleaners>>
       ELSE LET files1 == IF l_ask_vault THEN Append(l_files, "exists") ELSE l_files
                vault_file == IF l_ask_vault THEN Len(files1) ELSE 0
            IN  /\ l_files' = files1
                /\ IF runner_is_alive
                   THEN /\ l_out' = "A run is already in progress."
                        /\ UNCHANGED <<l_runs, l_cleaners>>
                   ELSE /\ l_out' = "Running"
                        /\ l_runs' = Append(l_runs, "alive")
                        /\ l_cleaners' = Append(l_cleaners,
                                                [file |-> vault_file, run |-> 0, pc |-> "start"])
    /\ UNCHANGED <<l_ask_vault, l_hosts>>

\* the main loop's key 'v'
legacy_key_v ==
    /\ l_ask_vault' = ~l_ask_vault
    /\ UNCHANGED <<l_hosts, l_calls, l_runs, l_files, l_cleaners, l_out>>

\* the main loop's key 'c'
legacy_key_c ==
    /\ l_hosts' = {}
    /\ UNCHANGED <<l_ask_vault, l_calls, l_runs, l_files, l_cleaners, l_out>>

\* ENTER on a group, with a host picked
legacy_pick_hosts ==
    /\ l_hosts' = {"sw1"}
    /\ UNCHANGED <<l_ask_vault, l_calls, l_runs, l_files, l_cleaners, l_out>>

\* Runner.run() returns: the thread i is no longer alive
runner_done(i) ==
    /\ l_runs[i] = "alive"
    /\ l_runs' = [l_runs EXCEPT ![i] = "done"]
    /\ UNCHANGED <<l_ask_vault, l_hosts, l_calls, l_files, l_cleaners, l_out>>

\* _cleanup: self.runner.join() is entered on the Runner that App.runner is then
cleanup_join(c) ==
    /\ l_cleaners[c].pc = "start"
    /\ l_cleaners' = [l_cleaners EXCEPT ![c].run = Len(l_runs), ![c].pc = "join"]
    /\ UNCHANGED <<l_ask_vault, l_hosts, l_calls, l_runs, l_files, l_out>>

\* _cleanup: join() has returned; the file, if there is one, is removed
cleanup_remove(c) ==
    /\ l_cleaners[c].pc = "join"
    /\ l_runs[l_cleaners[c].run] = "done"
    /\ l_cleaners' = [l_cleaners EXCEPT ![c].pc = "done"]
    /\ l_files' = IF l_cleaners[c].file # 0
                  THEN [l_files EXCEPT ![l_cleaners[c].file] = "removed"]
                  ELSE l_files
    /\ UNCHANGED <<l_ask_vault, l_hosts, l_calls, l_runs, l_out>>

\* the front-end before any key
LegacyIdle ==
    /\ l_ask_vault = FALSE
    /\ l_hosts = {}
    /\ l_calls = 0
    /\ l_runs = <<>>
    /\ l_files = <<>>
    /\ l_cleaners = <<>>
    /\ l_out = ""

\* what the single-file front-end leaves alone
NotLegacy == <<tvars, rvars, bvars, cvars, avars, pvars, mvars>>

LegacyNext ==
    \/ \E password \in LegacyPasswords : run_ansible(password) /\ UNCHANGED NotLegacy
    \/ legacy_key_v /\ UNCHANGED NotLegacy
    \/ legacy_key_c /\ UNCHANGED NotLegacy
    \/ legacy_pick_hosts /\ UNCHANGED NotLegacy
    \/ \E i \in 1..Len(l_runs) : runner_done(i) /\ UNCHANGED NotLegacy
    \/ \E c \in 1..Len(l_cleaners) : cleanup_join(c) /\ UNCHANGED NotLegacy
    \/ \E c \in 1..Len(l_cleaners) : cleanup_remove(c) /\ UNCHANGED NotLegacy

\* ------------------------------------------------------------------
\* Host selection: the Sites pane, App.rebuild_groups and the modal
\* MultiCheckModalPane that loop() opens on a group. The inventory has one
\* file per site.
\* ------------------------------------------------------------------
\* the [group -> hosts] content of each site's inventory file
SiteFiles ==
    [ lab  |-> [A |-> <<"sw2", "sw1">>],
      prod |-> [A |-> <<"s1">>, B |-> <<"sw2">>] ]

\* the rows of the Sites pane, as discover() builds them
SiteItems == <<"all", "lab", "prod">>

\* the terminal heights the modal is opened on
ScreenHeights == {4, 24}

\* hosts_by_group(files), for the files of the sites in ss
hosts_by_group(ss) ==
    [ g \in UNION {DOMAIN SiteFiles[s] : s \in ss} |->
          sorted(UNION {SeqToSet(SiteFiles[s][g]) : s \in {x \in ss : g \in DOMAIN SiteFiles[x]}}) ]

\* the group map rebuild_groups installs for a site selection
rebuild_groups(sel) ==
    IF sel = {} \/ "all" \in sel
    THEN hosts_by_group(DOMAIN SiteFiles)
    ELSE hosts_by_group(sel \cap DOMAIN SiteFiles)

\* CheckListPane.toggle_current with the cursor on cur
toggle_current(sel, cur) ==
    IF cur = "all"
    THEN (IF "all" \in sel THEN sel \ {"all"} ELSE {"all"})
    ELSE LET rest == sel \ {"all"}
         IN  IF cur \in rest THEN rest \ {cur} ELSE rest \cup {cur}

\* loop(), focus on the Sites pane: SPACE or ENTER on the row cur
key_site_toggle(cur) ==
    /\ m_pc = "closed"
    /\ selected_sites' = toggle_current(selected_sites, cur)
    /\ group_map' = rebuild_groups(selected_sites')
    /\ UNCHANGED <<st_group, st_hosts, m_pc, m_g, m_options, m_selected, m_index, m_top,
                   m_height, m_ret>>

all_label == "All"

items == <<all_label>> \o m_options

is_all_selected == Cardinality(m_selected) = Len(m_options) /\ Len(m_options) > 0

m_visible_rows == Max(1, m_height - 3)

\* the value of self.top after the modal's _ensure_cursor_visible, for cursor idx
m_ensure_cursor_visible(idx) ==
    IF idx < m_top THEN idx
    ELSE IF idx >= m_top + m_visible_rows THEN idx - m_visible_rows + 1
    ELSE m_top

\* loop(), focus on the Groups pane: ENTER on the row g of a screen h lines high
\* builds the modal and enters its run()
modal_open(g, h) ==
    /\ m_pc = "closed"
    /\ g \in DOMAIN group_map
    /\ m_pc' = "open"
    /\ m_g' = g
    /\ m_options' = group_map[g]
    /\ m_selected' = IF st_group = g THEN SeqToSet(st_hosts) ELSE {}
    /\ m_index' = 0
    /\ m_top' = 0
    /\ m_height' = Min(Max(10, (h * 7) \div 10), h)
    /\ UNCHANGED <<st_group, st_hosts, selected_sites, group_map, m_ret>>

\* MultiCheckModalPane.toggle(label)
toggle(label) ==
    IF label = all_label
    THEN (IF is_all_selected THEN {} ELSE SeqToSet(m_options))
    ELSE (IF label \in m_selected THEN m_selected \ {label} ELSE m_selected \cup {label})

\* run(): a key that moves the cursor to row idx
modal_cursor(idx) ==
    /\ m_pc = "open"
    /\ m_index' = idx
    /\ m_top' = m_ensure_cursor_visible(idx)
    /\ UNCHANGED <<st_group, st_hosts, selected_sites, group_map, m_pc, m_g, m_options,
                   m_selected, m_height, m_ret>>

\* run(): KEY_UP or 'k'
modal_key_up == m_index > 0 /\ modal_cursor(m_index - 1)

\* run(): KEY_DOWN or 'j'
modal_key_down == m_index < Len(items) - 1 /\ modal_cursor(m_index + 1)

_page_up == modal_cursor(Max(0, m_index - m_visible_rows))

_page_down == modal_cursor(Min(Len(items) - 1, m_index + m_visible_rows))

_to_home == modal_cursor(0)

_to_end == modal_cursor(Len(items) - 1)

\* run(): SPACE
modal_key_space ==
    /\ m_pc = "open"
    /\ m_selected' = toggle(items[m_index + 1])
    /\ UNCHANGED <<st_group, st_hosts, selected_sites, group_map, m_pc, m_g, m_options,
                   m_index, m_top, m_height, m_ret>>

\* the options whose row render() draws with "[x]"
ShownChecked == {o \in SeqToSet(m_options) : o \in m_selected}

\* run(): ESC or 'q' returns None, and loop() keeps the state
modal_key_esc ==
    /\ m_pc = "open"
    /\ m_pc' = "closed"
    /\ m_ret' = [op |-> "cancel", ret |-> <<>>, shown |-> ShownChecked]
    /\ UNCHANGED <<st_group, st_hosts, selected_sites, group_map, m_g, m_options,
                   m_selected, m_index, m_top, m_height>>

\* run(): ENTER returns the selection, and loop() stores it with the group
modal_key_enter ==
    /\ m_pc = "open"
    /\ LET res == IF is_all_selected THEN m_options ELSE sorted(m_selected)
       IN  /\ st_group' = m_g
           /\ st_hosts' = res
           /\ m_ret' = [op |-> "enter", ret |-> res, shown |-> ShownChecked]
    /\ m_pc' = "closed"
    /\ UNCHANGED <<selected_sites, group_map, m_g, m_options, m_selected, m_index, m_top,
                   m_height>>

PreviewIdle ==
    /\ st_group = "(none)"
    /\ preview = [shown |-> FALSE, lines |-> <<>>, vault |-> FALSE]

\* no modal has been opened: the state discover() leaves with no default site
ModalIdle ==
    /\ selected_sites = {}
    /\ group_map = rebuild_groups({})
    /\ m_pc = "closed"
    /\ m_g = ""
    /\ m_options = <<>>
    /\ m_selected = {}
    /\ m_index = 0
    /\ m_top = 0
    /\ m_height = 0
    /\ m_ret = [op |-> "none", ret |-> <<>>, shown |-> {}]

ModalInit == AppIdle /\ PreviewIdle /\ ModalIdle /\ LegacyIdle

\* what the host selection leaves alone
NotModal ==
    <<tvars, rvars, bvars, cvars, appPc, keys, typed, running, playbook_rel, vault,
      vault_password, vaultFile, spawned, runEnd, queuedRun, lateKey, streamed, preview,
      lvars>>

ModalNext ==
    \/ \E i \in 1..Len(SiteItems) : key_site_toggle(SiteItems[i]) /\ UNCHANGED NotModal
    \/ \E g \in DOMAIN group_map, h \in ScreenHeights : modal_open(g, h) /\ UNCHANGED NotModal
    \/ modal_key_up /\ UNCHANGED NotModal
    \/ modal_key_down /\ UNCHANGED NotModal
    \/ _page_up /\ UNCHANGED NotModal
    \/ _page_down /\ UNCHANGED NotModal
    \/ _to_home /\ UNCHANGED NotModal
    \/ _to_end /\ UNCHANGED NotModal
    \/ modal_key_space /\ UNCHANGED NotModal
    \/ modal_key_esc /\ UNCHANGED NotModal
    \/ modal_key_enter /\ UNCHANGED NotModal

XIdle == PreviewIdle /\ ModalIdle /\ LegacyIdle

\* loop() with some selection made and, after earlier runs, a password stored
PreviewInit ==
    /\ appPc = "getch"
    /\ keys = <<>>
    /\ typed = 0
    /\ running = FALSE
    /\ playbook_rel \in {NoArg, "playbooks/site.yml"}
    /\ st_hosts \in {<<>>, <<"sw1">>, <<"sw1", "sw2">>}
    /\ vault \in BOOLEAN
    /\ vault_password \in VaultPasswords
    /\ vaultFile = "none"
    /\ spawned = 0
    /\ runEnd = "none"
    /\ queuedRun = FALSE
    /\ lateKey = FALSE
    /\ streamed = <<>>
    /\ st_group \in GroupNamesOfState
    /\ preview = [shown |-> FALSE, lines |-> <<>>, vault |-> FALSE]
    /\ ModalIdle
    /\ LegacyIdle

\* what the preview's keys leave alone
NotPreview ==
    <<tvars, rvars, bvars, cvars, appPc, keys, typed, running, vaultFile, spawned,
      runEnd, queuedRun, lateKey, streamed, mvars, lvars>>

PreviewNext ==
    \/ key_show_cmd /\ UNCHANGED NotPreview
    \/ key_toggle_vault /\ UNCHANGED NotPreview
    \/ key_clear_hosts /\ UNCHANGED NotPreview

\* ------------------------------------------------------------------
\* Specifications
\* ------------------------------------------------------------------
InitTree == TreeInit /\ RunnerIdle /\ BufIdle /\ CmdInit /\ AppIdle /\ XIdle

SpecTree == InitTree /\ [][TreeNext]_vars

SpecTreeAny == InitTree /\ [][TreeNextAny]_vars

InitRunner == TreeIdle /\ RunnerInit /\ BufIdle /\ CmdInit /\ AppIdle /\ XIdle

SpecRunner == InitRunner /\ [][RunnerNext]_vars

SpecRunnerIoError == InitRunner /\ [][RunnerNextIoError]_vars

InitBuf == TreeIdle /\ RunnerIdle /\ BufInit /\ CmdInit /\ AppIdle /\ XIdle

SpecBuf == InitBuf /\ [][BufNext]_vars

\* the pane as App.layout creates it, used on its own: its operations in any
\* order, and the run loop's body for a chunk
PaneNext ==
    \/ BufNext
    \/ \E c \in 1..Len(Chunks) :
           /\ Len(appended) + Len(parts_of(Chunks[c])) <= MaxAppended
           /\ for_body(Chunks[c])
           /\ UNCHANGED NotBuf

InitPane == TreeIdle /\ RunnerIdle /\ AppBufInit /\ CmdInit /\ AppIdle /\ XIdle

SpecPane == InitPane /\ [][PaneNext]_vars

\* a cleared pane fed one chunk, every byte sequence up to MaxAnsiLen over AnsiBytes
AnsiNext ==
    \/ /\ blast.op # "append_bytes"
       /\ \E n \in 0..MaxAnsiLen : \E bytes \in [1..n -> AnsiBytes] : append_bytes(bytes)
       /\ UNCHANGED NotBuf
    \/ blast.op # "append_bytes" /\ append_bytes(ColoredLine) /\ UNCHANGED NotBuf
    \/ clear /\ UNCHANGED NotBuf

InitAnsi == TreeIdle /\ RunnerIdle /\ AppBufInit /\ CmdInit /\ AppIdle /\ XIdle

SpecAnsi == InitAnsi /\ [][AnsiNext]_vars

InitPreview == TreeIdle /\ RunnerIdle /\ BufIdle /\ CmdInit /\ PreviewInit

SpecPreview == InitPreview /\ [][PreviewNext]_vars

InitModal == TreeIdle /\ RunnerIdle /\ BufIdle /\ CmdInit /\ ModalInit

SpecModal == InitModal /\ [][ModalNext]_vars

LegacyInit == AppIdle /\ PreviewIdle /\ ModalIdle /\ LegacyIdle

InitLegacy == TreeIdle /\ RunnerIdle /\ BufIdle /\ CmdInit /\ LegacyInit

SpecLegacy == InitLegacy /\ [][LegacyNext]_vars

InitCmd == TreeIdle /\ RunnerIdle /\ BufIdle /\ CmdInit /\ AppIdle /\ XIdle

SpecCmd == InitCmd /\ [][CmdNext]_vars

InitApp == TreeIdle /\ RunnerIdle /\ AppBufInit /\ CmdInit /\ AppInit /\ XIdle

SpecApp == InitApp /\ [][AppNext]_vars

\* The operating system schedules the child and the reader thread, and the
\* consumer keeps iterating stream() unless it abandons it.
SpecRunnerFair ==
    /\ SpecRunner
    /\ WF_vars(ChildNext /\ UNCHANGED NotRunner)
    /\ WF_vars(ReaderNext /\ UNCHANGED NotRunner)
    /\ WF_vars(StreamNext /\ UNCHANGED NotRunner)
    /\ WF_vars(WaitNext /\ UNCHANGED NotRunner)

\* As SpecRunnerFair, but nothing makes the consumer pull from stream(): it may
\* stop iterating for ever, or abandon the loop.
SpecRunnerNoPull ==
    /\ SpecRunner
    /\ WF_vars(ChildNext /\ UNCHANGED NotRunner)
    /\ WF_vars(ReaderNext /\ UNCHANGED NotRunner)
    /\ WF_vars(wait_returns /\ UNCHANGED NotRunner)

\* ------------------------------------------------------------------
\* Properties of the runner
\* ------------------------------------------------------------------
StreamReturned == mainPc \in {"returned", "wait", "exited"} /\ ~abandoned

\* C4: when a consumer has iterated stream() to completion, the chunks yielded
\* are, in order, exactly the bytes the child wrote: none lost, none twice.
C4_StreamDeliversAll == StreamReturned => yielded = Iota(written)

\* C5: the reader puts the sentinel exactly once, as its last item, on end of
\* file and on OSError alike; and once the child has exited stream() ends.
C5_SentinelOnceAndStreamEnds ==
    /\ [](/\ sentinels <= 1
          /\ lateItems = 0
          /\ (readerPc = "done") <=> (sentinels = 1))
    /\ (childPc = "exited") ~> ~Streaming

\* C5's case: the read raised OSError, the reader finished with its one sentinel
\* and stream() returned to a consumer that iterated it to the end.
C5_Witness ==
    /\ readerEnd = "oserror"
    /\ readerPc = "done"
    /\ sentinels = 1
    /\ StreamReturned
    /\ total > 0

\* C6: whatever the consumer does, the reader keeps emptying the terminal, so
\* the child always gets to exit and wait() returns its exit code.
C6_WaitNeverDeadlocks ==
    /\ (childPc = "running") ~> (childPc = "exited")
    /\ (mainPc = "wait") ~> (mainPc = "exited")
    /\ [](mainPc = "exited" => waitResult = exitCode /\ exitCode \in ExitCodes)

\* C6's case: stream() was never iterated, the child wrote more than the
\* terminal holds, and wait() has returned.
C6_Witness ==
    /\ abandoned
    /\ yielded = <<>>
    /\ written > PtyCap
    /\ mainPc = "exited"
    /\ waitResult = exitCode

\* C7: once the with block has been left, wait() has been called and both
\* descriptors of the pseudo-terminal are closed.
C7_ScopeExitReleases ==
    mainPc = "exited" => waitCalled /\ masterFd = "closed" /\ slaveFd = "closed"

\* ------------------------------------------------------------------
\* Properties of the output pane
\* ------------------------------------------------------------------
LastN(s, k) == SubSeq(s, Len(s) - Min(k, Len(s)) + 1, Len(s))

\* C10: the buffer never holds more than max_lines lines, and it holds the most
\* recent max_lines of the lines appended (all of them while they are fewer), in
\* the order they were appended.
C10_BufferBound ==
    /\ Len(lines) <= max_lines
    /\ lines = LastN(appended, max_lines)

\* C10's case: more lines than max_lines were appended, the oldest were evicted
\* and two different lines survive.
C10_Witness ==
    /\ max_lines >= 2
    /\ Len(appended) > max_lines
    /\ Len(lines) = max_lines
    /\ lines[1] # lines[2]
    /\ appended[1] # lines[1]

\* the newline-terminated segments of a text that ends with a newline
RECURSIVE lf_segments(_)
lf_segments(s) ==
    IF s = <<>> THEN <<>>
    ELSE LET i == CHOOSE k \in 1..Len(s) : s[k] = LF /\ \A j \in 1..(k - 1) : s[j] # LF
         IN  <<SubSeq(s, 1, i - 1)>> \o lf_segments(Drop(s, i))

\* what a terminal shows of one segment: the text after its last carriage
\* return, a carriage return that only ends the line ("\r\n") aside
overwritten(seg) ==
    IF seg # <<>> /\ seg[Len(seg)] = CR
    THEN after_last_cr(SubSeq(seg, 1, Len(seg) - 1))
    ELSE after_last_cr(seg)

segment_lines(bytes) ==
    LET segs == lf_segments(ansi_sub(decode(bytes)))
    IN  [i \in 1..Len(segs) |-> overwritten(segs[i])]

\* C11: append_bytes of a chunk of newline-terminated segments adds one line
\* per segment, each the text after the last carriage return inside that
\* segment; no segment is lost to a carriage return in a later one.
C11_CRPerSegment ==
    (/\ blast.op = "append_bytes"
     /\ blast.chunk # <<>>
     /\ blast.chunk[Len(blast.chunk)] = LF)
    => Drop(appended, blast.at) = segment_lines(blast.chunk)

\* C12: the scroll offset stays within 0 .. max(0, lineCount - visibleRows);
\* to_top sets it to the upper bound and to_bottom to 0.
C12_ScrollBounds ==
    /\ scroll >= 0
    /\ scroll <= _max_scroll
    /\ blast.op = "to_top" => scroll = Max(0, Len(lines) - Max(0, outH - 2))
    /\ blast.op = "to_bottom" => scroll = 0

\* C12's case: a scroll_lines call that went past the top was held at the upper
\* bound, with more lines buffered than the window shows.
C12_Witness ==
    /\ blast.op = "scroll_lines"
    /\ Len(lines) = 2
    /\ outH = 3
    /\ scroll = 1
    /\ max_lines = 2

\* ------------------------------------------------------------------
\* Properties of build_ansible_cmd
\* ------------------------------------------------------------------
\* the names of a list joined with commas, built from the right
RECURSIVE CommaList(_)
CommaList(xs) ==
    IF Len(xs) = 1 THEN xs[1]
    ELSE CommaList(SubSeq(xs, 1, Len(xs) - 1)) \o "," \o xs[Len(xs)]

HasLimit == cargs.hosts # <<>>

HasVaultFile == cargs.vault_password_file \notin {NoArg, ""}

\* C13: without ask_vault the command is the tool, "-i", the inventory and the
\* playbook, then "--limit" and the comma-joined hosts iff there are hosts, then
\* "--vault-password-file" and the path iff a path was given, and nothing else.
C13_CommandVector ==
    (cargs.called /\ ~cargs.ask_vault) =>
        LET n == 4 + (IF HasLimit THEN 2 ELSE 0)
        IN  /\ Len(cmd) = n + (IF HasVaultFile THEN 2 ELSE 0)
            /\ SubSeq(cmd, 1, 4) = <<"ansible-playbook", "-i", cargs.inventory, cargs.playbook_path>>
            /\ HasLimit => cmd[5] = "--limit" /\ cmd[6] = CommaList(cargs.hosts)
            /\ HasVaultFile => /\ cmd[n + 1] = "--vault-password-file"
                               /\ cmd[n + 2] = cargs.vault_password_file

\* C13's case: a call with two hosts and a vault file, ask_vault false.
C13_Witness ==
    /\ cargs.called
    /\ ~cargs.ask_vault
    /\ Len(cargs.hosts) = 2
    /\ cargs.hosts[1] # cargs.hosts[2]
    /\ HasVaultFile
    /\ Len(cmd) = 8

\* ------------------------------------------------------------------
\* Further properties of the tree
\* ------------------------------------------------------------------
\* C19: a group without children is never Checked: it is Unchecked after
\* loading and after every toggle_check, on itself or on an ancestor.
C19_EmptyGroupUnchecked ==
    \A n \in Groups : ChildSet(n) = {} => checked[n] = 0

\* C20: every host node is a leaf and is Unchecked or Checked, never Partial.
C20_HostLeafTwoState ==
    \A n \in Hosts : ChildSet(n) = {} /\ checked[n] \in {0, 2}

\* C34: after toggle_check on a group, the group, every host below it and
\* every group below it that has children are in one target state: Checked
\* if the group was Unchecked or Partial before, Unchecked if it was Checked.
C34_GroupToggleTarget ==
    ToggledGroup =>
        LET target == IF last.before = 2 THEN 0 ELSE 2
        IN  /\ checked[last.node] = target
            /\ \A h \in HostsUnder(last.node) : checked[h] = target
            /\ \A g \in Groups : (IsUnder(g, last.node) /\ ChildSet(g) # {}) => checked[g] = target

C34_Witness ==
    /\ ToggledGroup
    /\ last.before = 1
    /\ checked[last.node] = 2
    /\ \E g \in Groups : IsUnder(g, last.node) /\ ChildSet(g) # {}
    /\ T.parent[last.node] # 0

\* the nodes all of whose ancestors are expanded groups
Shown(n) == \A a \in Nodes : IsUnder(n, a) => T.kind[a] = "group" /\ expanded[a]

\* C35: the flat view is the pre-order list of the nodes all of whose
\* ancestors are expanded groups, after every operation of the pane.
C35_FlatViewFresh ==
    flat = IF root = 0 THEN <<>> ELSE SelectSeq(Iota(NumNodes(T)), Shown)

C35_Witness ==
    /\ last.op = "toggle_expand"
    /\ T.kind[last.node] = "group"
    /\ ~expanded[last.node]
    /\ \E n \in Nodes : T.parent[n] # last.node /\ ~Shown(n)
    /\ \E n \in Nodes : T.parent[n] # 1 /\ T.parent[n] # 0 /\ Shown(n)

\* C37: a toggle_check on node n leaves the check state of every node that is
\* neither n, nor below n, nor above n as it was; on a host it changes no
\* other host; and it changes no expanded flag.
C37_ToggleFrame ==
    last.op = "toggle_check" =>
        LET n == last.node
        IN  /\ \A m \in Nodes :
                   (m # n /\ ~IsUnder(m, n) /\ ~IsUnder(n, m)) => checked[m] = last.was[m]
            /\ T.kind[n] = "host" => \A h \in Hosts \ {n} : checked[h] = last.was[h]
            /\ expanded = last.flags

\* C38: with a tree loaded the cursor index is a row of the flat view, so
\* current() is a node; and toggle_check_current, expand_current,
\* toggle_expand_current and the collapse of an expanded group leave the cursor
\* on the node they acted on.
C38_CursorOnRow ==
    root # 0 =>
        /\ 0 <= index /\ index < Len(flat)
        /\ current \in Nodes
        /\ ( \/ last.op \in {"toggle_check", "expand", "toggle_expand"}
             \/ (last.op = "collapse" /\ last.wasExpanded) ) => current = last.node

C38_Witness ==
    /\ last.op = "collapse"
    /\ last.wasExpanded
    /\ index > 0
    /\ index = Len(flat) - 1
    /\ \E n \in Nodes : T.parent[n] = current

\* C39: while the host-selection modal is open on a group with hosts, "All"
\* counts as selected exactly when every option is in the selected set; and a
\* confirmed modal returns exactly the options that were shown checked, each
\* once.
C39_ModalSelection ==
    /\ (m_pc = "open" /\ m_options # <<>>) =>
           (is_all_selected <=> SeqToSet(m_options) \subseteq m_selected)
    /\ m_ret.op = "enter" =>
           /\ SeqToSet(m_ret.ret) = m_ret.shown
           /\ Len(m_ret.ret) = Cardinality(m_ret.shown)

\* C40: once no Runner is alive and every _cleanup thread has finished, no
\* temporary vault password file that run_ansible created is left: each has
\* been removed, whichever way the run_ansible that created it returned.
C40_VaultFilesRemoved ==
    ( /\ \A i \in 1..Len(l_runs) : l_runs[i] = "done"
      /\ \A c \in 1..Len(l_cleaners) : l_cleaners[c].pc = "done" )
    => \A f \in 1..Len(l_files) : l_files[f] = "removed"

\* C21: no descriptor with a node that lacks a name, or whose kind is neither
\* "group" nor "host", is ever installed as the pane's tree: set_tree raises
\* on every such descriptor.
C21_MalformedRejected ==
    root # 0 => \A n \in Nodes : T.name[n] # NoKey /\ T.kind[n] \in {"group", "host"}

\* C22: after a set_tree that raised, the root, every node's check and expand
\* state, the flat view, the cursor index and the scroll top are what they
\* were before the call.
C22_FailedLoadLeavesPane == last.op = "set_tree_raised" => Pane = last.was

C22_Witness ==
    /\ last.op = "set_tree_raised"
    /\ root # 0
    /\ index > 0
    /\ top > 0
    /\ \E n \in Nodes : checked[n] = 2
    /\ \E n \in Nodes : ~expanded[n] /\ T.kind[n] = "group"

\* the number of proper ancestors of n
Ancestors(n) == Cardinality({a \in Nodes : IsUnder(n, a)})

C24_CollapseOrGoParent ==
    /\ last.op # "collapse_raised"
    /\ last.op = "collapse" =>
           IF T.kind[last.node] = "group" /\ last.wasExpanded
           THEN ~expanded[last.node] /\ current = last.node
           ELSE IF T.parent[last.node] # 0
           THEN current = T.parent[last.node]
           ELSE current = last.node

\* C25: expand_current on a group that is already expanded changes nothing,
\* and so does a second expand_current right after a first.
C25_ExpandIdempotent ==
    [][ (/\ last'.op = "expand"
         /\ (last'.wasExpanded \/ last.op = "expand"))
        => UNCHANGED Pane ]_vars

C25_Witness ==
    /\ last.op = "expand"
    /\ last.wasExpanded
    /\ T.kind[last.node] = "group"
    /\ children(T, last.node) # <<>>
    /\ index > 0

\* the rows of the flat view that hold a Checked host
CheckedRows == {i \in 1..Len(flat) : T.kind[flat[i]] = "host" /\ checked[flat[i]] = 2}

\* the token a Checked host row contributes
RowToken(i) ==
    LET h == T.name[flat[i]]
        g == top_level_group(T, flat[i])
    IN  IF Cardinality({j \in CheckedRows : T.name[flat[j]] = h}) > 1 /\ g # NoGroup
        THEN Qualified(g, h)
        ELSE h

FirstRow(tk) == CHOOSE i \in CheckedRows : RowToken(i) = tk /\
                    \A j \in CheckedRows : RowToken(j) = tk => i <= j

\* C26: the list of limit patterns holds each contributed token exactly once,
\* in the order of the first Checked host row, top to bottom, that contributes it.
C26_PatternsOnceInRowOrder ==
    root # 0 =>
        LET pats == get_selected_limit_patterns
        IN  /\ \A i, j \in 1..Len(pats) : i # j => pats[i] # pats[j]
            /\ SeqToSet(pats) = {RowToken(i) : i \in CheckedRows}
            /\ \A i, j \in 1..Len(pats) : i < j => FirstRow(pats[i]) < FirstRow(pats[j])

C26_Witness ==
    /\ root # 0
    /\ Len(get_selected_limit_patterns) >= 2
    /\ \E i, j, k \in CheckedRows :
           i < j /\ j < k /\ RowToken(i) = RowToken(k) /\ RowToken(j) # RowToken(i)

\* ------------------------------------------------------------------
\* Properties of the vault flags of the command
\* ------------------------------------------------------------------
Flags == SeqToSet(cmd)

\* C30: no command holds both "--vault-password-file" and "--ask-vault-pass";
\* with a vault password file path given, the file flag is there and the ask
\* flag is not, whatever ask_vault is.
C30_VaultFlagsExclusive ==
    cargs.called =>
        /\ ~("--vault-password-file" \in Flags /\ "--ask-vault-pass" \in Flags)
        /\ HasVaultFile =>
               "--vault-password-file" \in Flags /\ "--ask-vault-pass" \notin Flags

C30_Witness ==
    /\ cargs.called
    /\ cargs.ask_vault
    /\ HasVaultFile
    /\ cargs.hosts # <<>>

\* C31: build_ansible_cmd changes nothing but its return value: whatever the
\* arguments of the calls made so far, the process environment is the one
\* the program started with.
C31_NoSideEffect == environ = [n \in EnvNames |-> "unset"]

\* the command line the preview is to show: the run's command with the mask
\* in the place of the vault file path
MaskedCommand ==
    "  ansible-playbook -i /proj/inventory "
    \o (IF playbook_rel = NoArg THEN "(none)" ELSE "/proj/" \o playbook_rel)
    \o (IF run_hosts_of(AppStateNow) = <<>> THEN ""
        ELSE " --limit " \o CommaList(run_hosts_of(AppStateNow)))
    \o (IF vault THEN " --vault-password-file ******" ELSE "")

\* C32: the preview is the same whatever password is stored, and the lines
\* the modal shows hold the command with "******" for the vault file.
C32_PreviewHidesSecret ==
    /\ \A pw \in VaultPasswords :
           _build_command_preview([AppStateNow EXCEPT !.vault_password = pw])
               = _build_command_preview(AppStateNow)
    /\ (preview.shown /\ preview.lines = _build_command_preview(AppStateNow))
           => preview.lines[9] = MaskedCommand

C32_Witness ==
    /\ preview.shown
    /\ preview.vault
    /\ vault
    /\ vault_password = "secret"
    /\ Len(run_hosts_of(AppStateNow)) = 2
    /\ preview.lines = _build_command_preview(AppStateNow)

\* C33: after a read of the master that failed for another reason than end of
\* file or hangup, stream() does not end the way it ends normally, by
\* returning to a consumer that iterated it to the end.
C33_ReadErrorSurfaced == ~(readerEnd = "io_error" /\ StreamReturned)

\* ------------------------------------------------------------------
\* Properties of the output pane's text cleaning and window
\* ------------------------------------------------------------------
\* s[i..j] is one CSI sequence: ESC, "[", parameter bytes 0x30-0x3F,
\* intermediate bytes 0x20-0x2F, one final byte 0x40-0x7E
IsCsi(s, i, j) ==
    /\ i + 2 <= j /\ j <= Len(s)
    /\ s[i] = ESC /\ s[i + 1] = 91
    /\ s[j] >= 64 /\ s[j] <= 126
    /\ \E k \in (i + 2)..j :
           /\ \A m \in (i + 2)..(k - 1) : s[m] >= 48 /\ s[m] <= 63
           /\ \A m \in k..(j - 1) : s[m] >= 32 /\ s[m] <= 47

\* the characters of s outside every CSI sequence, in order
StripCsi(s) ==
    LET inside(p) == \E i \in 1..p : \E j \in p..Len(s) : IsCsi(s, i, j)
        kept == SelectSeq(Iota(Len(s)), LAMBDA p : ~inside(p))
    IN  [k \in 1..Len(kept) |-> s[kept[k]]]

\* C27: the lines append_bytes adds for a chunk without carriage returns are
\* the lines of the chunk's text with every complete CSI sequence removed and
\* every other character kept in order; ESC[31m ERROR ESC[0m LF adds "ERROR".
C27_AnsiStripped ==
    (/\ blast.op = "append_bytes"
     /\ \A i \in 1..Len(blast.chunk) : blast.chunk[i] # CR)
    => /\ Drop(appended, blast.at) = splitlines(StripCsi(decode(blast.chunk)))
       /\ blast.chunk = ColoredLine => lines = << <<69, 82, 82, 79, 82>> >>

C27_Witness ==
    /\ blast.op = "append_bytes"
    /\ \E i, j \in 1..Len(blast.chunk) : j > i + 2 /\ IsCsi(blast.chunk, i, j)
    /\ lines # <<>>
    /\ lines[1] # <<>>

\* C28: an append made while the scroll offset is above 0 leaves the window
\* showing the lines it showed before; at offset 0 the window shows the
\* newest lines.
C28_ViewFrozenWhileScrolled ==
    /\ (blast.op = "append_bytes" /\ scroll > 0) => render(lines, scroll, outH) = blast.shown
    /\ scroll = 0 => render(lines, scroll, outH) = LastN(lines, Max(0, outH - 2))

\* C29: no append changes the scroll offset: append_bytes called directly
\* leaves it alone, and the run loop's body is in follow mode exactly when
\* the offset was 0 before the append, ends at offset 0 then, and at the
\* user's offset otherwise.
C29_FollowOnlyInRunLoop ==
    blast.op = "append_bytes" =>
        /\ blast.follow = "direct" => scroll = blast.scroll0
        /\ blast.follow = "yes" => blast.scroll0 = 0 /\ scroll = 0
        /\ blast.follow = "no" => blast.scroll0 > 0 /\ scroll = blast.scroll0

C29_Witness ==
    /\ blast.op = "append_bytes"
    /\ blast.follow = "no"
    /\ Len(lines) > Len(blast.shown)
    /\ scroll > 0

\* the bytes of a sequence of chunks, end to end
RECURSIVE Concat(_)
Concat(chunks) == IF chunks = <<>> THEN <<>> ELSE Head(chunks) \o Concat(Tail(chunks))

\* C36: the lines buffered during a run are the lines of the bytes streamed
\* so far taken as one chunk, however the reader cut them into chunks.
C36_ChunkingInvisible == lines = parts_of(Concat(streamed))

\* ------------------------------------------------------------------
\* Properties of the application
\* ------------------------------------------------------------------
\* C14: a run request made while a run is in progress starts no second child,
\* neither at once nor later.
C14_NoRunFromBusyRequest == ~(queuedRun /\ spawned >= 2)

\* C15: whenever run() is not executing, no vault password file is left
\* without an attempt to delete it, and running is False; this holds after a
\* normal exit, a non-zero exit, a failed spawn and an exception in the loop.
C15_VaultFileCleanup ==
    appPc # "run" => (vaultFile # "exists" /\ ~running)

\* C15's case: a run with a vault file was interrupted by an exception while
\* streaming, and the file was removed on the way out.
C15_Witness ==
    /\ runEnd = "raised"
    /\ appPc = "crashed"
    /\ vaultFile = "removed"
    /\ cmd[Len(cmd)] = VaultPath
    /\ yielded # <<>>

\* C16: a child that cannot be started does not end the UI loop and leaves
\* exactly one status line in the output pane.
C16_SpawnErrorRecovered ==
    runEnd = "spawn_failed" => (appPc # "crashed" /\ Len(appended) = 1)

\* the lines of the chunks streamed to the current run
RECURSIVE LinesOf(_)
LinesOf(chunks) ==
    IF chunks = <<>> THEN <<>>
    ELSE parts_of(Head(chunks)) \o LinesOf(Tail(chunks))

\* run() has returned normally from a run whose child exited with a non-zero code
FailedRunOver ==
    /\ appPc = "getch"
    /\ runEnd = "returned"
    /\ mainPc = "exited"
    /\ waitResult # 0

\* C17 as stated: after such a run the pane holds what was streamed and then
\* one status line with the exit code.
C17_StatusLineAfterFailure ==
    FailedRunOver =>
        /\ Len(appended) = Len(LinesOf(streamed)) + 1
        /\ SubSeq(appended, 1, Len(appended) - 1) = LinesOf(streamed)

\* C17: after such a run the pane holds exactly the lines that were streamed,
\* nothing after them, running is False and the loop waits for the next key.
C17_RawOutputAfterFailure ==
    FailedRunOver =>
        /\ appended = LinesOf(streamed)
        /\ lines = appended
        /\ ~running

\* C17's case: the child wrote two lines and exited with code 1.
C17_Witness ==
    /\ FailedRunOver
    /\ waitResult = 1
    /\ Len(lines) = 2
    /\ lines[1] # lines[2]

\* C18: no key typed during a run waits for the child's exit before it is handled.
C18_KeysHandledDuringRun == ~lateKey

====
